---- MODULE Spec2Model ----
(***************************************************************************)
(* Verification model of the wafer-insight-analyzer parsers.               *)
(*                                                                         *)
(*   Spec          the binary (STDF) parser of src/utils/stdfParser.ts:    *)
(*                 both class definitions the file holds, the "enhanced"   *)
(*                 one (lines 66-478: parseStdfFile, parseStdfBuffer,      *)
(*                 findNextValidRecord, extractStdfData,                   *)
(*                 generateMockStdfData) and the "legacy" one (lines       *)
(*                 531-741: parseStdfFile, parseMasterInfo,                *)
(*                 parsePartResult, readString, readDateTime).             *)
(*   SpecCombine   combineStdfResults over results of the enhanced parser. *)
(*   SpecMap       the wafer-map text parsers (edsMapParser.ts,            *)
(*                 secondFoundryParser.ts).                                *)
(*   SpecValidator EdsMapParser.validateData, then                         *)
(*                 DataValidator.generateIntegrityReport.                  *)
(*   SpecWafer     one wafer-map file parsed, then validated.              *)
(*   SpecHeader    the header part of extractStdfData.                     *)
(*   SpecResync    one call of findNextValidRecord.                        *)
(*   SpecUpload    handleFiles of components/data/DataUpload.tsx, two      *)
(*                 calls that may overlap.                                 *)
(*                                                                         *)
(* Offsets are the code's 0-based byte offsets; byte o of a buffer b is    *)
(* b[o + 1].  Math.random() is a nondeterministic choice.  Numbers that    *)
(* the code holds as doubles are kept exact: a percentage is a pair        *)
(* [num, den] and is compared by cross-multiplication.                     *)
(***************************************************************************)
EXTENDS Integers, Sequences, FiniteSets, TLC

VARIABLES
    \* ---- binary parser (Spec) ----
    impl,             \* "enhanced" | "legacy": which StdfParser definition runs
    fileStatus,       \* "ok" | "tooLarge" | "unreadable": the File handed in
    buf,              \* the ArrayBuffer's bytes (empty until/unless read)
    pc,               \* position inside parseStdfFile
    offset,           \* the scanning cursor
    records,          \* enhanced: records[]; legacy: headers consumed (ghost)
    parseErrors,
    recoveredRecords,
    iterations,       \* ghost: loop iterations executed so far
    caught,           \* ghost: exceptions absorbed by a catch block
    parts,            \* the result's parts (legacy: accumulated while scanning)
    binSummary,       \* the result's binSummary (legacy: hardBins)
    summary,          \* the result's summary, NoSummary until computed
    \* ---- combineStdfResults (SpecCombine) ----
    cResults,         \* the per-file results, in upload order
    cCombined,        \* the combined result, <<>> until combined
    cpc,
    \* ---- wafer-map text parsers (SpecMap) ----
    mParser,          \* "eds" (EdsMapParser) | "f2" (SecondFoundryParser)
    mContent,         \* the file content, as its lines (content.split('\n'))
    mLines,           \* lines: trimmed (eds: and the empty ones dropped)
    mpc,
    mIndex,           \* the loop index i
    mHeader,          \* header: field -> value
    coordinateMap,
    binCounts,
    \* ---- DataValidator (SpecValidator) ----
    waferMaps,        \* the headers of the wafer maps handed in
    farSummary,       \* the FAR summary, or NoFar
    lotSummary,       \* the lot summary's overallStats, or NoLot
    report,           \* the DataIntegrityReport, NoReport until returned
    statusTrace,      \* ghost: overallStatus after each check, in order
    statusBeforeWafers, \* ghost: overallStatus when the per-wafer checks begin
    validationResults, \* EdsMapParser.validateData's result, NoValidation until run
    vpc,
    \* ---- one call of a helper of StdfParser (SpecHeader, SpecResync) ----
    callName,         \* the helper called
    callArgs,         \* its arguments
    callResult,       \* what it returned, <<>> until it returns
    callPc,
    \* ---- the upload component (SpecUpload); u* are per handleFiles call ----
    isProcessing,     \* the component's isProcessing state
    uPc,              \* where the call is
    uKind,            \* what the files turn out to be: "stdf" | "eds" | "other"
    uFiles,           \* ghost: per binary file, in upload order, what its parse yields
    uSettled,         \* ghost: the files whose parse has resolved
    uReordered,       \* ghost: a parse resolved while an earlier file's was pending
    uResults,         \* Promise.all's values: index -> the result stored there
    uCombined         \* combinedStdfData, <<>> until combined

binVars == <<impl, fileStatus, buf, pc, offset, records, parseErrors,
             recoveredRecords, iterations, caught, parts, binSummary, summary>>
combVars == <<cResults, cCombined, cpc>>
mapVars == <<mParser, mContent, mLines, mpc, mIndex, mHeader, coordinateMap, binCounts>>
valVars == <<waferMaps, farSummary, lotSummary, report, statusTrace, statusBeforeWafers,
             validationResults, vpc>>
callVars == <<callName, callArgs, callResult, callPc>>
upVars == <<isProcessing, uPc, uKind, uFiles, uSettled, uReordered, uResults, uCombined>>
vars == <<binVars, combVars, mapVars, valVars, callVars, upVars>>
\* what each specification leaves alone
notBinVars == <<combVars, mapVars, valVars, callVars, upVars>>
notCombVars == <<binVars, mapVars, valVars, callVars, upVars>>
notMapVars == <<binVars, combVars, valVars, callVars, upVars>>
notValVars == <<binVars, combVars, mapVars, callVars, upVars>>
notCallVars == <<binVars, combVars, mapVars, valVars, upVars>>
notUpVars == <<binVars, combVars, mapVars, valVars, callVars>>

(***************************************************************************)
(* Bounds of the model.                                                    *)
(***************************************************************************)
\* buffers are concatenations of at most MaxChunks chunks of a library
MaxChunks == 3
\* stands for the 1000 of estimatedParts (stdfParser.ts:320), scaled down
MinEstimatedParts == 1
\* estimatedParts is drawn from MinEstimatedParts..MinEstimatedParts+EstimatedSpread
\* (code: 5000 values, stdfParser.ts:320)
EstimatedSpread == 0
\* stands for the 1000 of partCount (stdfParser.ts:403), scaled down
MinMockParts == 1
\* partCount is drawn from MinMockParts..MinMockParts+MockSpread (code: 5000 values)
MockSpread == 0
\* files combined by combineStdfResults
MaxFiles == 2
\* PRR records of one file in SpecCombine
MaxPrr == 2

(***************************************************************************)
(* Program constants.                                                      *)
(***************************************************************************)
MAX_RECORD_LENGTH == 65535
\* maxErrors = Math.max(100, Math.floor(byteLength / 10000))
MinMaxErrors == 100
MaxErrorsDivisor == 10000
\* the hardBin values Math.random() selects among
HardBinChoices == {1, 2, 3}

Max(a, b) == IF a >= b THEN a ELSE b
Min(a, b) == IF a <= b THEN a ELSE b
SetMin(S) == CHOOSE x \in S : \A y \in S : x <= y

RECURSIVE SumOver(_, _)
SumOver(f, D) ==
    IF D = {} THEN 0
    ELSE LET k == CHOOSE x \in D : TRUE IN f[k] + SumOver(f, D \ {k})

RECURSIVE Concat(_)
Concat(ss) == IF ss = <<>> THEN <<>> ELSE Head(ss) \o Concat(Tail(ss))

SeqsUpTo(S, n) == UNION {[1..k -> S] : k \in 0..n}

(***************************************************************************)
(* Byte access (DataView).                                                 *)
(***************************************************************************)
U8(b, o) == b[o + 1]
U16BE(b, o) == b[o + 1] * 256 + b[o + 2]
U16LE(b, o) == b[o + 1] + b[o + 2] * 256
\* a DataView / Uint8Array read of n bytes at pos throws RangeError past the end
CanRead(b, pos, n) == pos >= 0 /\ pos + n <= Len(b)

(***************************************************************************)
(* Input buffers.  Enhanced chunks carry big-endian lengths, legacy chunks *)
(* little-endian ones.                                                     *)
(***************************************************************************)
Pad(n) == [i \in 1..n |-> 0]

EnhancedChunks ==
    { <<0, 1, 5, 20, 7>>,          \* PRR, 1 payload byte
      <<0, 2, 5, 20, 7, 7>>,       \* PRR, 2 payload bytes
      <<0, 1, 1, 10, 7>>,          \* MIR, 1 payload byte
      <<0, 1, 2, 10, 7>>,          \* WIR, 1 payload byte
      <<0, 0, 20, 20>>,            \* EPS, empty payload
      <<0, 9, 5, 20, 7>>,          \* PRR header claiming 9 payload bytes
      <<255, 255, 5, 20>>,         \* header claiming 65535 payload bytes
      <<0>> }                      \* a stray byte

\* legacy PRR payload: head, site, flag, numTests(2), hardBin(2), softBin(2),
\* x(2), y(2), testTime(4), partIdLength = 0
LegacyPrr(hb) == <<18, 0, 2, 20>> \o <<1, 1, 0, 0, 0, hb, 0, hb, 0>> \o Pad(9)
\* legacy MIR payload: 15 fixed bytes, lotIdLength = 0, partTypeLength = 0,
\* then `extra` bytes of further fields
LegacyMir(extra) == <<17 + extra, 0, 1, 10>> \o Pad(17 + extra)

LegacyChunks ==
    { LegacyPrr(1), LegacyPrr(2),
      LegacyMir(0), LegacyMir(2),
      <<2, 0, 2, 20, 1, 0>>,       \* PRR with a 2-byte payload
      <<2, 0, 0, 10, 4, 0>>,       \* FAR
      <<0, 0, 20, 20>>,            \* EPS, empty payload
      <<0, 0, 15, 10>>,            \* TSR, empty payload
      <<9, 0, 5, 20, 7>>,          \* header claiming 9 payload bytes
      <<0>> }                      \* a stray byte

Buffers(chunks) == { Concat(cs) : cs \in SeqsUpTo(chunks, MaxChunks) }

(***************************************************************************)
(* Results.  A part keeps its hardBin and, as a ghost, where it came from: *)
(* "prr" (one per PRR record), "pad" (the fill loop of extractStdfData),   *)
(* "mock" (generateMockStdfData).                                          *)
(***************************************************************************)
NoSummary == [totalParts |-> -1]
EmptyBins == [b \in {} |-> 0]

\* the per-part bin count of stdfParser.ts:308-316 (and 336-344, 580)
RECURSIVE CountBins(_)
CountBins(ps) ==
    IF ps = <<>> THEN EmptyBins
    ELSE LET prev == CountBins(SubSeq(ps, 1, Len(ps) - 1))
             k == ps[Len(ps)].hardBin
         IN IF k \in DOMAIN prev THEN [prev EXCEPT ![k] = @ + 1]
            ELSE prev @@ (k :> 1)

PassCount(ps) == Cardinality({i \in 1..Len(ps) : ps[i].hardBin = 1})

\* passParts / totalParts * 100, guarded against totalParts = 0
YieldPercentage(pass, total) ==
    IF total > 0 THEN [num |-> pass * 100, den |-> total] ELSE [num |-> 0, den |-> 1]

\* totalParts, passParts, failParts, yieldPercentage of stdfParser.ts:347-350
Summarize_FailAsPass(ps) ==
    LET total == Len(ps)
        pass == total - PassCount(ps)
    IN [totalParts |-> total, passParts |-> pass, failParts |-> total - pass,
        yieldPercentage |-> YieldPercentage(pass, total)]
Summarize(ps) ==
    LET total == Len(ps)
        pass == PassCount(ps)
    IN [totalParts |-> total, passParts |-> pass, failParts |-> total - pass,
        yieldPercentage |-> YieldPercentage(pass, total)]

\* testSummary holds the count every test's statistics carry: the number of
\* parts they were computed over (stdfParser.ts:355-366, 454-460)
MkResult(ps, bins, sm) ==
    [parts |-> ps, binSummary |-> bins, summary |-> sm,
     testSummary |-> [count |-> Len(ps)]]

(***************************************************************************)
(* Enhanced parser: findNextValidRecord, one iteration of the scanning     *)
(* loop of parseStdfBuffer, extractStdfData, generateMockStdfData.         *)
(***************************************************************************)
maxErrors(b) == Max(MinMaxErrors, Len(b) \div MaxErrorsDivisor)

LooksValid(b, o, maxOffset) ==
    LET recordLength == U16BE(b, o)
        recordType == U8(b, o + 2)
        recordSubType == U8(b, o + 3)
    IN /\ recordLength > 0 /\ recordLength <= MAX_RECORD_LENGTH
       /\ recordType >= 0 /\ recordType <= 255
       /\ recordSubType >= 0 /\ recordSubType <= 255
       /\ o + 4 + recordLength <= maxOffset

findNextValidRecord_FromBufferStart(b, startOffset, maxOffset) ==
    LET found == {o \in 0..(maxOffset - 5) : LooksValid(b, o, maxOffset)}
    IN IF found = {} THEN startOffset ELSE SetMin(found)
findNextValidRecord(b, startOffset, maxOffset) ==
    LET found == {o \in startOffset..(maxOffset - 5) : LooksValid(b, o, maxOffset)}
    IN IF found = {} THEN startOffset ELSE SetMin(found)

\* the offset after an empty record (stdfParser.ts:163-166)
SkipEmptyRecord_NoAdvance(o) == o
SkipEmptyRecord(o) == o + 4

\* one pass through the loop body of stdfParser.ts:144-205.  `exit` is a break.
ScanIteration_NoOverrunCheck(b, o, recs, errs) ==
    LET recordLength == U16BE(b, o)
        stay == [offset |-> o, records |-> recs, parseErrors |-> errs, exit |-> FALSE]
    IN IF o + 4 > Len(b) THEN [stay EXCEPT !.exit = TRUE]
       ELSE IF recordLength > MAX_RECORD_LENGTH
       THEN [stay EXCEPT !.offset = findNextValidRecord(b, o + 1, Len(b)),
                         !.parseErrors = errs + 1]
       ELSE IF recordLength = 0
       THEN [stay EXCEPT !.offset = SkipEmptyRecord(o)]
       ELSE [stay EXCEPT
               !.records = Append(recs, [type |-> U8(b, o + 2),
                                         subType |-> U8(b, o + 3),
                                         length |-> recordLength,
                                         offset |-> o]),
               !.offset = o + 4 + recordLength]
ScanIteration(b, o, recs, errs) ==
    LET recordLength == U16BE(b, o)
        stay == [offset |-> o, records |-> recs, parseErrors |-> errs, exit |-> FALSE]
    IN IF o + 4 > Len(b) THEN [stay EXCEPT !.exit = TRUE]
       ELSE IF recordLength > MAX_RECORD_LENGTH
       THEN [stay EXCEPT !.offset = findNextValidRecord(b, o + 1, Len(b)),
                         !.parseErrors = errs + 1]
       ELSE IF recordLength = 0
       THEN [stay EXCEPT !.offset = SkipEmptyRecord(o)]
       ELSE IF o + 4 + recordLength > Len(b)
       THEN [stay EXCEPT !.exit = TRUE]
       ELSE [stay EXCEPT
               !.records = Append(recs, [type |-> U8(b, o + 2),
                                         subType |-> U8(b, o + 3),
                                         length |-> recordLength,
                                         offset |-> o]),
               !.offset = o + 4 + recordLength]

IsPrr(r) == r.type = 5 /\ r.subType = 20
PrrCount(recs) == Cardinality({i \in 1..Len(recs) : IsPrr(recs[i])})

\* estimatedParts of stdfParser.ts:320 (code: 1000..5999)
EstimatedPartsChoices == MinEstimatedParts..(MinEstimatedParts + EstimatedSpread)

\* the parts of stdfParser.ts:293-345: one per PRR record, then the fill loop
ExtractedParts(nPrr, est) ==
    LET n == Max(nPrr, est)
    IN { [i \in 1..n |-> [hardBin |-> bins[i],
                          origin |-> IF i <= nPrr THEN "prr" ELSE "pad"]] :
         bins \in [1..n -> HardBinChoices] }

\* every result extractStdfData can return for these records
ExtractOutcomes(recs) ==
    { MkResult(ps, CountBins(ps), Summarize(ps)) :
      ps \in UNION { ExtractedParts(PrrCount(recs), est) : est \in EstimatedPartsChoices } }

\* partCount of stdfParser.ts:403 (code: 1000..5999)
MockPartCounts == MinMockParts..(MinMockParts + MockSpread)

MockParts(n) ==
    { [i \in 1..n |-> [hardBin |-> bins[i], origin |-> "mock"]] :
      bins \in [1..n -> HardBinChoices] }

\* binSummary of stdfParser.ts:449-453: Math.floor(failParts * 0.6) and
\* Math.ceil(failParts * 0.4); exact in doubles for failParts <= 5999
MockBins_FloorBoth(pass, fail) ==
    (1 :> pass) @@ (2 :> (6 * fail) \div 10) @@ (3 :> (4 * fail) \div 10)
MockBins(pass, fail) ==
    (1 :> pass) @@ (2 :> (6 * fail) \div 10) @@ (3 :> (4 * fail + 9) \div 10)

\* summary of stdfParser.ts:417-420 (no guard: partCount >= 1000)
MockSummary(ps) ==
    LET total == Len(ps)
        pass == PassCount(ps)
    IN [totalParts |-> total, passParts |-> pass, failParts |-> total - pass,
        yieldPercentage |-> [num |-> pass * 100, den |-> total]]

\* every result generateMockStdfData can return
MockOutcomes ==
    { MkResult(ps, MockBins(PassCount(ps), Len(ps) - PassCount(ps)), MockSummary(ps)) :
      ps \in UNION { MockParts(n) : n \in MockPartCounts } }

(***************************************************************************)
(* Legacy parser: parseMasterInfo, parsePartResult and one iteration of    *)
(* the loop of the second parseStdfFile.  The DataView spans the whole     *)
(* buffer, so a read throws only past the end of the buffer.               *)
(***************************************************************************)
\* the end (exclusive) of the bytes read by the reads `fields`, each
\* <<offset, length>>, made in order until one throws; `end` when none reads
RECURSIVE ReadThrough(_, _, _)
ReadThrough(b, fields, end) ==
    IF fields = <<>> THEN end
    ELSE LET f == Head(fields)
         IN IF ~CanRead(b, f[1], f[2]) THEN end
            ELSE ReadThrough(b, Tail(fields), IF f[2] > 0 THEN Max(end, f[1] + f[2]) ELSE end)

\* parseMasterInfo(view, o4, header): the position returned, or a throw;
\* readEnd is the end of the bytes it read
parseMasterInfo(b, o4) ==
    LET lotIdLength == U8(b, o4 + 15)
        p == o4 + 16 + lotIdLength
        partTypeLength == U8(b, p)
        thrown(fields) == [ok |-> FALSE, pos |-> o4, readEnd |-> ReadThrough(b, fields, o4)]
    IN IF ~CanRead(b, o4 + 4, 4) THEN thrown(<<>>)
       ELSE IF ~CanRead(b, o4 + 15, 1) THEN thrown(<< <<o4 + 4, 4>> >>)
       ELSE IF ~CanRead(b, o4 + 16, lotIdLength)
       THEN thrown(<< <<o4 + 4, 4>>, <<o4 + 15, 1>> >>)
       ELSE IF ~CanRead(b, p, 1)
       THEN thrown(<< <<o4 + 4, 4>>, <<o4 + 15, 1>>, <<o4 + 16, lotIdLength>> >>)
       ELSE IF ~CanRead(b, p + 1, partTypeLength)
       THEN thrown(<< <<o4 + 4, 4>>, <<o4 + 15, 1>>, <<o4 + 16, lotIdLength>>, <<p, 1>> >>)
       ELSE [ok |-> TRUE, pos |-> p + 1 + partTypeLength,
             readEnd |-> ReadThrough(b, << <<o4 + 4, 4>>, <<o4 + 15, 1>>,
                                           <<o4 + 16, lotIdLength>>, <<p, 1>>,
                                           <<p + 1, partTypeLength>> >>, o4)]

\* the fixed-offset reads of parsePartResult (stdfParser.ts:693-714)
PartResultFields(o4) ==
    << <<o4 + 3, 2>>, <<o4 + 5, 2>>, <<o4 + 7, 2>>, <<o4 + 9, 2>>, <<o4 + 11, 2>>,
       <<o4 + 13, 4>>, <<o4 + 17, 1>> >>

\* parsePartResult(view, o4): the part, or a throw; readEnd is the end of the
\* bytes it read
parsePartResult(b, o4) ==
    IF ~CanRead(b, o4 + 17, 1)
    THEN [ok |-> FALSE, hardBin |-> 0, readEnd |-> ReadThrough(b, PartResultFields(o4), o4)]
    ELSE LET partIdLength == U8(b, o4 + 17)
         IN IF partIdLength > 0 /\ ~CanRead(b, o4 + 18, partIdLength)
            THEN [ok |-> FALSE, hardBin |-> 0, readEnd |-> o4 + 18]
            ELSE [ok |-> TRUE, hardBin |-> U16LE(b, o4 + 5),
                  readEnd |-> o4 + 18 + partIdLength]

\* one pass through the loop body of stdfParser.ts:547-595.
\* kind: "next" (loop again), "break", "throw".
LegacyIteration(b, o, ps) ==
    LET recordLength == U16LE(b, o)
        recordType == U8(b, o + 2)
        recordSubType == U8(b, o + 3)
        o4 == o + 4
        \* readEnd: the end of the bytes the record's interpreter read
        out(k, off, p, re) == [kind |-> k, offset |-> off, parts |-> p, readEnd |-> re]
        next(re) == out("next", o4 + recordLength, ps, re)
        throw(re) == out("throw", o4, ps, re)
    IN IF o4 + recordLength > Len(b) THEN out("break", o4, ps, o4)
       ELSE IF recordType = 0 /\ recordSubType = 10
       THEN IF CanRead(b, o4, 2) THEN next(o4 + 2) ELSE throw(o4)
       ELSE IF recordType = 1 /\ recordSubType = 10
       THEN LET m == parseMasterInfo(b, o4)
            IN IF m.ok THEN out("next", m.pos, ps, m.readEnd) ELSE throw(m.readEnd)
       ELSE IF recordType = 1 /\ recordSubType = 20
       THEN IF CanRead(b, o4, 4) THEN next(o4 + 4) ELSE throw(o4)
       ELSE IF recordType = 2 /\ recordSubType = 20
       THEN LET r == parsePartResult(b, o4)
            IN IF r.ok
               THEN out("next", o4 + recordLength,
                        Append(ps, [hardBin |-> r.hardBin, origin |-> "prr"]), r.readEnd)
               ELSE throw(r.readEnd)
       ELSE IF recordType = 15 /\ recordSubType = 10
       THEN IF CanRead(b, o4 + 4, 40) THEN next(o4 + 44) ELSE throw(o4)
       ELSE next(o4)

\* where control goes when the loop body throws: the catch of
\* stdfParser.ts:597-600 falls through to the summary
LegacyAfterThrow_NoCatch == "escaped"
LegacyAfterThrow == "summarize"

(***************************************************************************)
(* Spec: parseStdfFile, both definitions.                                  *)
(***************************************************************************)
CombIdle == /\ cResults = <<>> /\ cCombined = <<>> /\ cpc = "idle"

NoHeader == [f \in {} |-> <<>>]
InitMap(parser, content, at) ==
    /\ mParser = parser /\ mContent = content /\ mLines = <<>>
    /\ mpc = at /\ mIndex = 0 /\ mHeader = NoHeader
    /\ coordinateMap = <<>> /\ binCounts = EmptyBins
MapIdle == InitMap("none", <<>>, "idle")

NoFar == [present |-> FALSE]
NoLot == [present |-> FALSE]
NoReport == [overallStatus |-> "none"]
NoValidation == [issues |-> <<>>]
InitValidator(maps, far, lot, at) ==
    /\ waferMaps = maps /\ farSummary = far /\ lotSummary = lot
    /\ report = NoReport /\ statusTrace = <<>> /\ statusBeforeWafers = "none"
    /\ validationResults = NoValidation /\ vpc = at
ValIdle == InitValidator(<<>>, NoFar, NoLot, "idle")

InitCall(name, args, at) ==
    /\ callName = name /\ callArgs = args /\ callResult = <<>> /\ callPc = at
CallIdle == InitCall("none", <<>>, "idle")

\* the handleFiles calls the model follows: one, and a second one that may
\* arrive while the first is still awaiting
Invocations == {"first", "second"}
InitUpload(at) ==
    /\ isProcessing = FALSE
    /\ uPc = [k \in Invocations |-> at]
    /\ uKind = [k \in Invocations |-> "none"]
    /\ uFiles = [k \in Invocations |-> <<>>]
    /\ uSettled = [k \in Invocations |-> {}]
    /\ uReordered = [k \in Invocations |-> FALSE]
    /\ uResults = [k \in Invocations |-> <<>>]
    /\ uCombined = [k \in Invocations |-> <<>>]
UpIdle == InitUpload("idle")

InitBinary(i, st, b) ==
    /\ impl = i /\ fileStatus = st /\ buf = b
    /\ pc = "start" /\ offset = 0 /\ records = <<>>
    /\ parseErrors = 0 /\ recoveredRecords = 0
    /\ iterations = 0 /\ caught = 0
    /\ parts = <<>> /\ binSummary = EmptyBins /\ summary = NoSummary

Init ==
    /\ CombIdle /\ MapIdle /\ ValIdle /\ CallIdle /\ UpIdle
    /\ \/ \E b \in Buffers(EnhancedChunks) : InitBinary("enhanced", "ok", b)
       \/ \E st \in {"tooLarge", "unreadable"} : InitBinary("enhanced", st, <<>>)
       \/ \E b \in Buffers(LegacyChunks) : InitBinary("legacy", "ok", b)
       \/ InitBinary("legacy", "unreadable", <<>>)

Return(r) ==
    /\ parts' = r.parts /\ binSummary' = r.binSummary /\ summary' = r.summary
    /\ pc' = "done"

\* stdfParser.ts:103-106: file.size > MAX_FILE_SIZE
StartTooLarge ==
    /\ impl = "enhanced" /\ pc = "start" /\ fileStatus = "tooLarge"
    /\ \E r \in MockOutcomes : Return(r)
    /\ UNCHANGED <<impl, fileStatus, buf, offset, records, parseErrors,
                   recoveredRecords, iterations, caught, notBinVars>>

\* stdfParser.ts:113-120: file.arrayBuffer() rejects, the catch falls back
StartUnreadable ==
    /\ impl = "enhanced" /\ pc = "start" /\ fileStatus = "unreadable"
    /\ caught' = caught + 1
    /\ \E r \in MockOutcomes : Return(r)
    /\ UNCHANGED <<impl, fileStatus, buf, offset, records, parseErrors,
                   recoveredRecords, iterations, notBinVars>>

\* stdfParser.ts:114-115, 132-140
StartScan ==
    /\ impl = "enhanced" /\ pc = "start" /\ fileStatus = "ok"
    /\ pc' = "scan"
    /\ UNCHANGED <<impl, fileStatus, buf, offset, records, parseErrors,
                   recoveredRecords, iterations, caught, parts, binSummary,
                   summary, notBinVars>>

\* stdfParser.ts:143-212: one iteration of the while loop
ScanStep ==
    /\ impl = "enhanced" /\ pc = "scan"
    /\ offset < Len(buf) - 4 /\ parseErrors < maxErrors(buf)
    /\ LET it == ScanIteration(buf, offset, records, parseErrors)
       IN /\ offset' = it.offset
          /\ records' = it.records
          /\ parseErrors' = it.parseErrors
          /\ pc' = IF it.exit THEN "extract" ELSE "scan"
    /\ iterations' = iterations + 1
    /\ UNCHANGED <<impl, fileStatus, buf, recoveredRecords, caught, parts,
                   binSummary, summary, notBinVars>>

\* stdfParser.ts:143: the loop condition fails
ScanExit ==
    /\ impl = "enhanced" /\ pc = "scan"
    /\ ~(offset < Len(buf) - 4 /\ parseErrors < maxErrors(buf))
    /\ pc' = "extract"
    /\ UNCHANGED <<impl, fileStatus, buf, offset, records, parseErrors,
                   recoveredRecords, iterations, caught, parts, binSummary,
                   summary, notBinVars>>

\* stdfParser.ts:225, 250-383
Extract ==
    /\ impl = "enhanced" /\ pc = "extract"
    /\ \E r \in ExtractOutcomes(records) : Return(r)
    /\ UNCHANGED <<impl, fileStatus, buf, offset, records, parseErrors,
                   recoveredRecords, iterations, caught, notBinVars>>

\* stdfParser.ts:533: the read is outside the try
LegacyStart ==
    /\ impl = "legacy" /\ pc = "start"
    /\ pc' = IF fileStatus = "ok" THEN "scan" ELSE "escaped"
    /\ UNCHANGED <<impl, fileStatus, buf, offset, records, parseErrors,
                   recoveredRecords, iterations, caught, parts, binSummary,
                   summary, notBinVars>>

\* stdfParser.ts:546-596: one iteration of the while loop
LegacyStep ==
    /\ impl = "legacy" /\ pc = "scan"
    /\ offset < Len(buf) - 4
    /\ LET it == LegacyIteration(buf, offset, parts)
       IN /\ offset' = it.offset
          /\ parts' = it.parts
          /\ binSummary' = CountBins(it.parts)
          /\ records' = IF it.kind = "break" THEN records
                        ELSE Append(records, [type |-> U8(buf, offset + 2),
                                              subType |-> U8(buf, offset + 3),
                                              length |-> U16LE(buf, offset),
                                              offset |-> offset])
          /\ pc' = CASE it.kind = "next" -> "scan"
                     [] it.kind = "break" -> "summarize"
                     [] OTHER -> LegacyAfterThrow
          /\ caught' = IF it.kind = "throw" /\ LegacyAfterThrow # "escaped"
                       THEN caught + 1 ELSE caught
    /\ iterations' = iterations + 1
    /\ UNCHANGED <<impl, fileStatus, buf, parseErrors, recoveredRecords,
                   summary, notBinVars>>

\* stdfParser.ts:546: the loop condition fails
LegacyExit ==
    /\ impl = "legacy" /\ pc = "scan"
    /\ ~(offset < Len(buf) - 4)
    /\ pc' = "summarize"
    /\ UNCHANGED <<impl, fileStatus, buf, offset, records, parseErrors,
                   recoveredRecords, iterations, caught, parts, binSummary,
                   summary, notBinVars>>

\* stdfParser.ts:602-634
LegacyFinish ==
    /\ impl = "legacy" /\ pc = "summarize"
    /\ summary' = Summarize(parts)
    /\ pc' = "done"
    /\ UNCHANGED <<impl, fileStatus, buf, offset, records, parseErrors,
                   recoveredRecords, iterations, caught, parts, binSummary,
                   notBinVars>>

Next ==
    \/ StartTooLarge \/ StartUnreadable \/ StartScan
    \/ ScanStep \/ ScanExit \/ Extract
    \/ LegacyStart \/ LegacyStep \/ LegacyExit \/ LegacyFinish

Spec == Init /\ [][Next]_vars

(***************************************************************************)
(* combineStdfResults (unnamed/part_019, components/data/DataUpload.tsx)   *)
(***************************************************************************)
\* the ParsedStdfData a caller receives: the parts without the ghost origin
StripOrigin(ps) == [i \in 1..Len(ps) |-> [hardBin |-> ps[i].hardBin]]
Observable(r) == [r EXCEPT !.parts = StripOrigin(r.parts)]

\* n PRR records, as parseStdfBuffer lists them
PrrRecords(n) ==
    [i \in 1..n |-> [type |-> 5, subType |-> 20, length |-> 1, offset |-> 5 * (i - 1)]]

\* combined.binSummary of part_019:35-43: per bin, the sum of the inputs' counts
RECURSIVE MergeBins(_)
MergeBins(results) ==
    IF results = <<>> THEN EmptyBins
    ELSE LET prev == MergeBins(SubSeq(results, 1, Len(results) - 1))
             cur == results[Len(results)].binSummary
         IN [b \in DOMAIN prev \cup DOMAIN cur |->
               (IF b \in DOMAIN prev THEN prev[b] ELSE 0)
               + (IF b \in DOMAIN cur THEN cur[b] ELSE 0)]

\* part_019:3-46 for results.length >= 1 (an empty list throws, part_019:4-6);
\* { ...results[0] } keeps the first result's testSummary
combineStdfResults(results) ==
    IF Len(results) = 1 THEN results[1]
    ELSE LET ps == Concat([i \in 1..Len(results) |-> results[i].parts])
         IN [MkResult(ps, MergeBins(results), Summarize(ps))
                EXCEPT !.testSummary = results[1].testSummary]

BinIdle == InitBinary("none", "none", <<>>)

InitCombine ==
    /\ BinIdle /\ MapIdle /\ ValIdle /\ CallIdle /\ UpIdle
    /\ cResults = <<>> /\ cCombined = <<>> /\ cpc = "parsing"

\* DataUpload.tsx:203-205: one file's parseStdfFile resolves with decoded records
ParseDecoded ==
    /\ cpc = "parsing" /\ Len(cResults) < MaxFiles
    /\ \E n \in 0..MaxPrr : \E r \in ExtractOutcomes(PrrRecords(n)) :
          cResults' = Append(cResults, Observable(r))
    /\ UNCHANGED <<cCombined, cpc, notCombVars>>

\* DataUpload.tsx:203-205: one file's parseStdfFile resolves with the fallback
ParseFallback ==
    /\ cpc = "parsing" /\ Len(cResults) < MaxFiles
    /\ \E r \in MockOutcomes : cResults' = Append(cResults, Observable(r))
    /\ UNCHANGED <<cCombined, cpc, notCombVars>>

\* DataUpload.tsx:208
Combine ==
    /\ cpc = "parsing" /\ Len(cResults) >= 1
    /\ cCombined' = combineStdfResults(cResults)
    /\ cpc' = "combined"
    /\ UNCHANGED <<cResults, notCombVars>>

NextCombine == ParseDecoded \/ ParseFallback \/ Combine

SpecCombine == InitCombine /\ [][NextCombine]_vars

(***************************************************************************)
(* Wafer-map text parsers.  A line is a sequence of tokens: a token is one *)
(* character, or a header key standing for that key's characters.          *)
(***************************************************************************)
\* the whitespace String.prototype.trim() strips and \s matches
Whitespace == {" ", "\t"}
DigitChars == <<"0", "1", "2", "3", "4", "5", "6", "7", "8", "9">>
Digits == {DigitChars[i] : i \in 1..Len(DigitChars)}
DigitValue(c) == (CHOOSE i \in 1..Len(DigitChars) : DigitChars[i] = c) - 1

RECURSIVE TrimLeft(_)
TrimLeft(l) ==
    IF l # <<>> /\ Head(l) \in Whitespace THEN TrimLeft(Tail(l)) ELSE l
RECURSIVE TrimRight(_)
TrimRight(l) ==
    IF l # <<>> /\ l[Len(l)] \in Whitespace
    THEN TrimRight(SubSeq(l, 1, Len(l) - 1)) ELSE l
Trim(l) == TrimRight(TrimLeft(l))

Includes(l, tok) == \E i \in 1..Len(l) : l[i] = tok

\* line.split(':')[n], n = 0 or 1, trimmed; <<>> for a missing piece
FirstColon(l) ==
    IF Includes(l, ":") THEN SetMin({i \in 1..Len(l) : l[i] = ":"}) ELSE Len(l) + 1
SplitColon0(l) == Trim(SubSeq(l, 1, FirstColon(l) - 1))
SplitColon1(l) ==
    LET rest == SubSeq(l, FirstColon(l) + 1, Len(l))
    IN Trim(SubSeq(rest, 1, FirstColon(rest) - 1))

\* parseInt of a token string: its leading digits, "NaN" without any
RECURSIVE DigitsValue(_, _)
DigitsValue(l, acc) ==
    IF l # <<>> /\ Head(l) \in Digits
    THEN DigitsValue(Tail(l), acc * 10 + DigitValue(Head(l))) ELSE acc
ParseInt(l) == IF l # <<>> /\ Head(l) \in Digits THEN DigitsValue(l, 0) ELSE "NaN"

\* the leading digits of a token string, and what follows them
RECURSIVE LeadingDigits(_)
LeadingDigits(l) ==
    IF l # <<>> /\ Head(l) \in Digits THEN <<Head(l)>> \o LeadingDigits(Tail(l)) ELSE <<>>
AfterDigits(l) == SubSeq(l, Len(LeadingDigits(l)) + 1, Len(l))

\* parseFloat of a token string, in hundredths: the leading digits, then a
\* point and the digits after it (the files of the model write at most two
\* decimals); "NaN" without any digit
ParseFloat(l) ==
    LET whole == LeadingDigits(l)
        rest == AfterDigits(l)
        frac == IF rest # <<>> /\ Head(rest) = "." THEN LeadingDigits(Tail(rest)) ELSE <<>>
        two == SubSeq(frac \o <<"0", "0">>, 1, 2)
    IN IF whole = <<>> /\ frac = <<>> THEN "NaN"
       ELSE DigitsValue(whole, 0) * 100 + DigitsValue(two, 0)

\* yieldStr.replace('%', ''): the first '%' removed
RemovePercent(l) ==
    IF Includes(l, "%")
    THEN LET k == SetMin({i \in 1..Len(l) : l[i] = "%"})
         IN SubSeq(l, 1, k - 1) \o SubSeq(l, k + 1, Len(l))
    ELSE l

\* /^[1X\.\s]+$/ and /^[1X\.\sT]+$/
EdsRowClass == {"1", "X", "."} \cup Whitespace
F2RowClass == EdsRowClass \cup {"T"}
RowClass(parser) == IF parser = "eds" THEN EdsRowClass ELSE F2RowClass
MatchesRow(l, parser) == l # <<>> /\ \A i \in 1..Len(l) : l[i] \in RowClass(parser)

\* line.split('').filter(char => char !== ' ')
IsNotSpace(c) == c # " "
RowCells(l) == SelectSeq(l, IsNotSpace)

\* the counters a cell updates: edsMapParser.ts:93-97 counts only the keys
\* binCounts starts with; secondFoundryParser.ts:74-80 adds a key for any other
InitialBinCounts == ("1" :> 0) @@ ("X" :> 0) @@ ("." :> 0)
CountCell(parser, counts, c) ==
    IF c \in DOMAIN counts THEN [counts EXCEPT ![c] = @ + 1]
    ELSE IF parser = "f2" /\ c # " " THEN counts @@ (c :> 1)
    ELSE counts
RECURSIVE CountRow(_, _, _)
CountRow(parser, counts, row) ==
    IF row = <<>> THEN counts
    ELSE CountRow(parser, CountCell(parser, counts, Head(row)), Tail(row))

\* edsMapParser.ts:54-74: the keys tested, in order, and the field each sets
EdsKeys == <<"Device", "Lot NO", "Slot No", "Wafer ID", "Wafer Size", "Flat Dir",
             "Total test die", "Pass Die", "Fail Die", "Yield">>
EdsNumeric == {"Slot No", "Total test die", "Pass Die", "Fail Die"}
EdsKeyOf(l) ==
    LET hit == {k \in 1..Len(EdsKeys) : Includes(l, EdsKeys[k])}
    IN IF hit = {} THEN "" ELSE EdsKeys[SetMin(hit)]
EdsValue(key, l) ==
    LET v == SplitColon1(l)
        yieldStr == RemovePercent(v)
    IN IF key \in EdsNumeric THEN ParseInt(IF v = <<>> THEN <<"0">> ELSE v)
       ELSE IF key = "Yield" THEN ParseFloat(IF yieldStr = <<>> THEN <<"0">> ELSE yieldStr)
       ELSE v

\* secondFoundryParser.ts:33-55: key.toUpperCase() and the field it sets
F2Keys == {"DEVICE", "WAFERID", "X", "Y", "GOOD", "FAIL", "FLAT"}
ToUpperCase(tok) == IF tok = "Device" THEN "DEVICE" ELSE tok
F2KeyOf(l) ==
    LET k == SplitColon0(l)
    IN IF Len(k) = 1 /\ ToUpperCase(k[1]) \in F2Keys THEN ToUpperCase(k[1]) ELSE ""
F2Value(key, l) ==
    IF key \in {"DEVICE", "WAFERID"} THEN SplitColon1(l) ELSE ParseInt(SplitColon1(l))

IsHeaderLine(parser, l) ==
    IF parser = "eds" THEN EdsKeyOf(l) # "" ELSE Includes(l, ":")
HeaderWith(parser, h, l) ==
    LET key == IF parser = "eds" THEN EdsKeyOf(l) ELSE F2KeyOf(l)
        val == IF parser = "eds" THEN EdsValue(key, l) ELSE F2Value(key, l)
    IN IF key = "" THEN h
       ELSE [f \in DOMAIN h \cup {key} |-> IF f = key THEN val ELSE h[f]]

\* content.split('\n').map(trim), and for eds .filter(line => line)
IsNotEmpty(l) == l # <<>>
PrepareLines(parser, content) ==
    LET trimmed == [i \in 1..Len(content) |-> Trim(content[i])]
    IN IF parser = "eds" THEN SelectSeq(trimmed, IsNotEmpty) ELSE trimmed

\* the lines a map file is made of
MapLines ==
    { <<"1", "X", ".">>,
      <<"1", " ", "X">>,
      <<"1", "\t", "X">>,
      <<" ", "1", "1", " ">>,
      <<"T", "1">>,
      <<"-", "-">>,
      <<"Device", ":", "A">>,
      <<"Pass Die", ":", "2", "0">>,
      <<"GOOD", " ", ":", "2">>,
      <<>> }
MaxLines == 2

InitMapSpec ==
    /\ BinIdle /\ CombIdle /\ ValIdle /\ CallIdle /\ UpIdle
    /\ \E parser \in {"eds", "f2"} : \E content \in SeqsUpTo(MapLines, MaxLines) :
          InitMap(parser, content, "start")

\* edsMapParser.ts:45, secondFoundryParser.ts:21
MapSplit ==
    /\ mpc = "start"
    /\ mLines' = PrepareLines(mParser, mContent)
    /\ mpc' = "header"
    /\ UNCHANGED <<mParser, mContent, mIndex, mHeader, coordinateMap, binCounts,
                   notMapVars>>

\* edsMapParser.ts:51-80, secondFoundryParser.ts:27-61: one line of the
\* header loop; the first row line ends it with bodyStartIndex = i
MapHeaderLine ==
    /\ mpc = "header" /\ mIndex < Len(mLines)
    /\ LET line == mLines[mIndex + 1]
       IN IF IsHeaderLine(mParser, line)
          THEN /\ mHeader' = HeaderWith(mParser, mHeader, line)
               /\ mIndex' = mIndex + 1
               /\ UNCHANGED <<mpc, binCounts>>
          ELSE IF MatchesRow(line, mParser)
          THEN /\ mpc' = "body"
               /\ binCounts' = InitialBinCounts
               /\ UNCHANGED <<mHeader, mIndex>>
          ELSE /\ mIndex' = mIndex + 1
               /\ UNCHANGED <<mpc, mHeader, binCounts>>
    /\ UNCHANGED <<mParser, mContent, mLines, coordinateMap, notMapVars>>

\* the header loop ends without a row line: bodyStartIndex stays 0
MapHeaderEnd ==
    /\ mpc = "header" /\ mIndex = Len(mLines)
    /\ mpc' = "body" /\ mIndex' = 0
    /\ binCounts' = InitialBinCounts
    /\ UNCHANGED <<mParser, mContent, mLines, mHeader, coordinateMap, notMapVars>>

\* edsMapParser.ts:86-99, secondFoundryParser.ts:67-82: one line of the body loop
MapBodyLine ==
    /\ mpc = "body" /\ mIndex < Len(mLines)
    /\ LET line == mLines[mIndex + 1]
       IN IF MatchesRow(line, mParser)
          THEN /\ coordinateMap' = Append(coordinateMap, RowCells(line))
               /\ binCounts' = CountRow(mParser, binCounts, RowCells(line))
          ELSE UNCHANGED <<coordinateMap, binCounts>>
    /\ mIndex' = mIndex + 1
    /\ UNCHANGED <<mParser, mContent, mLines, mpc, mHeader, notMapVars>>

\* edsMapParser.ts:101-105, secondFoundryParser.ts:100-105
MapReturn ==
    /\ mpc = "body" /\ mIndex = Len(mLines)
    /\ mpc' = "done"
    /\ UNCHANGED <<mParser, mContent, mLines, mIndex, mHeader, coordinateMap,
                   binCounts, notMapVars>>

NextMap == MapSplit \/ MapHeaderLine \/ MapHeaderEnd \/ MapBodyLine \/ MapReturn

SpecMap == InitMapSpec /\ [][NextMap]_vars

(***************************************************************************)
(* DataValidator.generateIntegrityReport.  A yield is held in hundredths   *)
(* of a percent (8000 is 80.00%), so that the comparisons of               *)
(* dataValidator.ts:149-171 are exact; the inputs stay clear of the        *)
(* thresholds themselves, where the code's doubles round.                  *)
(***************************************************************************)
Abs(x) == IF x >= 0 THEN x ELSE -x

\* a ValidationResult; waferId is the wafer id its message names ("" when
\* the message names none)
EntryFor(valid, sev, msg, id) ==
    [isValid |-> valid, severity |-> sev, message |-> msg, waferId |-> id]
Entry(valid, sev, msg) == EntryFor(valid, sev, msg, "")

\* dataValidator.ts:25-33; `trace` is a ghost: every value assigned to
\* overallStatus, in order
InitialReport ==
    [overallStatus |-> "pass",
     waferCountValidation |-> Entry(TRUE, "info", "No validation performed"),
     bin1CountValidation |-> Entry(TRUE, "info", "No validation performed"),
     lotSummaryValidation |-> Entry(TRUE, "info", "No validation performed"),
     crossFileValidation |-> <<>>,
     individualWaferValidation |-> <<>>,
     recommendations |-> <<>>,
     beforeWafers |-> "pass",
     trace |-> <<"pass">>]

SetStatus(r, st) == [r EXCEPT !.overallStatus = st, !.trace = Append(@, st)]
\* if (report.overallStatus === 'pass') report.overallStatus = 'warning'
RaiseToWarning(r) == IF r.overallStatus = "pass" THEN SetStatus(r, "warning") ELSE r
\* a recommendation; waferId is the wafer id its text names ("" when none)
RecommendFor(r, hint, id) ==
    [r EXCEPT !.recommendations = Append(@, [text |-> hint, waferId |-> id])]
Recommend(r, hint) == RecommendFor(r, hint, "")

RECURSIVE SumField(_, _)
SumField(xs, f) == IF xs = <<>> THEN 0 ELSE Head(xs)[f] + SumField(Tail(xs), f)

\* dataValidator.ts:35-53
CheckWaferCount_NoFail(r, maps, far) ==
    IF ~far.present THEN r
    ELSE IF far.totalWafer = Len(maps)
    THEN [r EXCEPT !.waferCountValidation = Entry(TRUE, "info", "Wafer count matches")]
    ELSE Recommend(
           RaiseToWarning([r EXCEPT !.waferCountValidation =
                                      Entry(FALSE, "error", "Wafer count mismatch")]),
           "Check for missing wafer map files")
CheckWaferCount(r, maps, far) ==
    IF ~far.present THEN r
    ELSE IF far.totalWafer = Len(maps)
    THEN [r EXCEPT !.waferCountValidation = Entry(TRUE, "info", "Wafer count matches")]
    ELSE Recommend(
           SetStatus([r EXCEPT !.waferCountValidation =
                                  Entry(FALSE, "error", "Wafer count mismatch")],
                     "fail"),
           "Check for missing wafer map files")

\* dataValidator.ts:55-85
CheckBin1Count_AtLeast5(r, maps, far) ==
    IF ~(far.present /\ Len(maps) > 0) THEN r
    ELSE LET totalFarBin1 == SumField(far.waferMappings, "bin1Count")
             totalMapBin1 == SumField(maps, "passDie")
             variance == Abs(totalFarBin1 - totalMapBin1)
             \* percentageVariance >= 5
             significant == variance * 100 >= 5 * Max(totalFarBin1, totalMapBin1)
         IN IF totalFarBin1 = totalMapBin1
            THEN [r EXCEPT !.bin1CountValidation = Entry(TRUE, "info", "BIN1 counts match")]
            ELSE LET r1 == [r EXCEPT !.bin1CountValidation =
                                Entry(FALSE, IF significant THEN "error" ELSE "warning",
                                      "BIN1 count mismatch")]
                 IN IF significant
                    THEN Recommend(SetStatus(r1, "fail"), "Significant BIN1 count variance")
                    ELSE IF r1.overallStatus = "pass"
                    THEN Recommend(SetStatus(r1, "warning"), "Minor BIN1 count variance")
                    ELSE r1
CheckBin1Count(r, maps, far) ==
    IF ~(far.present /\ Len(maps) > 0) THEN r
    ELSE LET totalFarBin1 == SumField(far.waferMappings, "bin1Count")
             totalMapBin1 == SumField(maps, "passDie")
             variance == Abs(totalFarBin1 - totalMapBin1)
             \* percentageVariance > 5
             significant == variance * 100 > 5 * Max(totalFarBin1, totalMapBin1)
         IN IF totalFarBin1 = totalMapBin1
            THEN [r EXCEPT !.bin1CountValidation = Entry(TRUE, "info", "BIN1 counts match")]
            ELSE LET r1 == [r EXCEPT !.bin1CountValidation =
                                Entry(FALSE, IF significant THEN "error" ELSE "warning",
                                      "BIN1 count mismatch")]
                 IN IF significant
                    THEN Recommend(SetStatus(r1, "fail"), "Significant BIN1 count variance")
                    ELSE IF r1.overallStatus = "pass"
                    THEN Recommend(SetStatus(r1, "warning"), "Minor BIN1 count variance")
                    ELSE r1

\* dataValidator.ts:87-115
CheckLotSummary_AlwaysWarning(r, maps, lot) ==
    IF ~(lot.present /\ Len(maps) > 0) THEN r
    ELSE LET mapTotalDies == SumField(maps, "totalTestDie")
             mapTotalPass == SumField(maps, "passDie")
             lotDiesMatch == Abs(lot.totalDies - mapTotalDies) <= 1
             lotPassMatch == Abs(lot.totalPass - mapTotalPass) <= 1
         IN IF lotDiesMatch /\ lotPassMatch
            THEN [r EXCEPT !.lotSummaryValidation =
                     Entry(TRUE, "info", "Lot Summary data matches wafer maps")]
            ELSE Recommend(
                   SetStatus([r EXCEPT !.lotSummaryValidation =
                                      Entry(FALSE, "warning", "Lot Summary data mismatch")],
                             "warning"),
                   "Check lot summary calculation methodology")
CheckLotSummary(r, maps, lot) ==
    IF ~(lot.present /\ Len(maps) > 0) THEN r
    ELSE LET mapTotalDies == SumField(maps, "totalTestDie")
             mapTotalPass == SumField(maps, "passDie")
             lotDiesMatch == Abs(lot.totalDies - mapTotalDies) <= 1
             lotPassMatch == Abs(lot.totalPass - mapTotalPass) <= 1
         IN IF lotDiesMatch /\ lotPassMatch
            THEN [r EXCEPT !.lotSummaryValidation =
                     Entry(TRUE, "info", "Lot Summary data matches wafer maps")]
            ELSE Recommend(
                   RaiseToWarning([r EXCEPT !.lotSummaryValidation =
                                      Entry(FALSE, "warning", "Lot Summary data mismatch")]),
                   "Check lot summary calculation methodology")

\* waferMaps.find(w => w.header.waferId === id): the first match, or none
FindWafer(maps, id) ==
    LET hit == {i \in 1..Len(maps) : maps[i].waferId = id}
    IN IF hit = {} THEN 0 ELSE SetMin(hit)

PushCrossFile(r, e) == [r EXCEPT !.crossFileValidation = Append(@, e)]
PushWafer(r, e) == [r EXCEPT !.individualWaferValidation = Append(@, e)]

\* dataValidator.ts:120-143: one mapping of the FAR summary
CheckMapping_NotFoundWarns(r, maps, mapping) ==
    LET m == FindWafer(maps, mapping.waferId)
        variance == Abs(maps[m].passDie - mapping.bin1Count)
    IN IF m = 0
       THEN RaiseToWarning(PushCrossFile(r, EntryFor(FALSE, "error",
                                                     "not found in map files",
                                                     mapping.waferId)))
       ELSE IF variance > 0
       THEN LET r1 == PushCrossFile(r, EntryFor(FALSE,
                                                IF variance > 10 THEN "error" ELSE "warning",
                                                "BIN1 mismatch", mapping.waferId))
            IN IF variance > 10 /\ r1.overallStatus # "fail" THEN SetStatus(r1, "fail")
               ELSE RaiseToWarning(r1)
       ELSE r
CheckMapping(r, maps, mapping) ==
    LET m == FindWafer(maps, mapping.waferId)
        variance == Abs(maps[m].passDie - mapping.bin1Count)
    IN IF m = 0
       THEN SetStatus(PushCrossFile(r, EntryFor(FALSE, "error", "not found in map files",
                                                mapping.waferId)),
                      "fail")
       ELSE IF variance > 0
       THEN LET r1 == PushCrossFile(r, EntryFor(FALSE,
                                                IF variance > 10 THEN "error" ELSE "warning",
                                                "BIN1 mismatch", mapping.waferId))
            IN IF variance > 10 /\ r1.overallStatus # "fail" THEN SetStatus(r1, "fail")
               ELSE RaiseToWarning(r1)
       ELSE r

\* dataValidator.ts:117-145
RECURSIVE CheckMappings(_, _, _)
CheckMappings(r, maps, mappings) ==
    IF mappings = <<>> THEN r
    ELSE CheckMappings(CheckMapping(r, maps, Head(mappings)), maps, Tail(mappings))
CheckCrossFile(r, maps, far) ==
    IF ~(far.present /\ Len(maps) > 0) THEN r
    ELSE CheckMappings(r, maps, far.waferMappings)

\* |calculatedYield - yield| as a fraction num/den of a percent * 100
YieldVarianceNum(w) ==
    IF w.totalTestDie > 0 THEN Abs(w.passDie * 10000 - w.yield * w.totalTestDie)
    ELSE Abs(w.yield)
YieldVarianceDen(w) == IF w.totalTestDie > 0 THEN w.totalTestDie ELSE 1

\* dataValidator.ts:149-182: one wafer map
CheckWafer_VarianceWarns(r, w) ==
    LET over01 == YieldVarianceNum(w) > 10 * YieldVarianceDen(w)
        over1 == YieldVarianceNum(w) > 100 * YieldVarianceDen(w)
        r0 == IF over01
              THEN PushWafer(r, EntryFor(FALSE, IF over1 THEN "warning" ELSE "info",
                                         "Yield calculation variance", w.waferId))
              ELSE r
        r1 == IF over1 THEN RaiseToWarning(r0) ELSE r0
    IN IF w.yield > 9950
       THEN PushWafer(r1, EntryFor(TRUE, "info", "Excellent yield", w.waferId))
       ELSE IF w.yield < 7000
       THEN RecommendFor(RaiseToWarning(PushWafer(r1, EntryFor(FALSE, "warning",
                                                               "Low yield detected",
                                                               w.waferId))),
                         "Investigate low yield", w.waferId)
       ELSE r1
CheckWafer(r, w) ==
    LET over01 == YieldVarianceNum(w) > 10 * YieldVarianceDen(w)
        over1 == YieldVarianceNum(w) > 100 * YieldVarianceDen(w)
        r1 == IF over01
              THEN PushWafer(r, EntryFor(FALSE, IF over1 THEN "warning" ELSE "info",
                                         "Yield calculation variance", w.waferId))
              ELSE r
    IN IF w.yield > 9950
       THEN PushWafer(r1, EntryFor(TRUE, "info", "Excellent yield", w.waferId))
       ELSE IF w.yield < 7000
       THEN RecommendFor(RaiseToWarning(PushWafer(r1, EntryFor(FALSE, "warning",
                                                               "Low yield detected",
                                                               w.waferId))),
                         "Investigate low yield", w.waferId)
       ELSE r1

\* dataValidator.ts:147-183
RECURSIVE CheckWafers(_, _)
CheckWafers(r, maps) ==
    IF maps = <<>> THEN r ELSE CheckWafers(CheckWafer(r, Head(maps)), Tail(maps))

\* dataValidator.ts:185-188
GeneralRecommendation(r) ==
    IF r.overallStatus = "pass" /\ r.recommendations = <<>>
    THEN Recommend(r, "Data integrity validation passed")
    ELSE r

\* ghost: the status held when the per-wafer checks begin
MarkBeforeWafers(r) == [r EXCEPT !.beforeWafers = r.overallStatus]

\* dataValidator.ts:20-191
generateIntegrityReport(maps, far, lot) ==
    GeneralRecommendation(
      CheckWafers(
        MarkBeforeWafers(
          CheckCrossFile(
            CheckLotSummary(
              CheckBin1Count(
                CheckWaferCount(InitialReport, maps, far), maps, far),
              maps, lot),
            maps, far)),
        maps))

\* edsMapParser.ts:171-178: the issues of one FAR mapping
MappingIssues(maps, mapping) ==
    LET m == FindWafer(maps, mapping.waferId)
    IN IF m = 0 THEN << <<"Wafer ID not found in map files", mapping.waferId>> >>
       ELSE IF maps[m].passDie # mapping.bin1Count
       THEN << <<"BIN1 mismatch", mapping.waferId>> >>
       ELSE <<>>
RECURSIVE MappingsIssues(_, _)
MappingsIssues(maps, mappings) ==
    IF mappings = <<>> THEN <<>>
    ELSE MappingIssues(maps, Head(mappings)) \o MappingsIssues(maps, Tail(mappings))

\* edsMapParser.ts:145-182
validateData(maps, far) ==
    IF ~far.present
    THEN [waferCountMatch |-> TRUE, bin1CountMatch |-> TRUE, issues |-> <<>>]
    ELSE LET countOk == far.totalWafer = Len(maps)
             totalFarBin1 == SumField(far.waferMappings, "bin1Count")
             totalMapBin1 == SumField(maps, "passDie")
             bin1Ok == totalFarBin1 = totalMapBin1
         IN [waferCountMatch |-> countOk,
             bin1CountMatch |-> bin1Ok,
             issues |-> (IF countOk THEN <<>> ELSE << <<"Wafer count mismatch", "">> >>)
                        \o (IF bin1Ok THEN <<>> ELSE << <<"BIN1 count mismatch", "">> >>)
                        \o MappingsIssues(maps, far.waferMappings)]

\* the inputs: wafer-map headers, FAR summaries, lot summaries
MaxWafers == 2
MaxMappings == 1
WaferIds == {"W1", "W2"}
WaferProfiles ==
    { [passDie |-> 80, totalTestDie |-> 100, yield |-> 8000],    \* consistent
      [passDie |-> 80, totalTestDie |-> 100, yield |-> 8050],    \* off by 0.5
      [passDie |-> 80, totalTestDie |-> 100, yield |-> 8500],    \* off by 5
      [passDie |-> 60, totalTestDie |-> 100, yield |-> 6000],    \* low yield
      [passDie |-> 100, totalTestDie |-> 100, yield |-> 10000] } \* excellent
Wafers ==
    { [waferId |-> id, passDie |-> p.passDie, totalTestDie |-> p.totalTestDie,
       yield |-> p.yield] : id \in WaferIds, p \in WaferProfiles }
\* a declared bin1Count equal to a map's passDie, or 4 below it (5% of 80)
Mappings == [waferId : WaferIds, bin1Count : {76, 80}]
FarSummaries ==
    {NoFar} \cup
    { [present |-> TRUE, totalWafer |-> n, waferMappings |-> ms] :
      n \in {1, 2}, ms \in SeqsUpTo(Mappings, MaxMappings) }
LotSummaries ==
    { NoLot,
      [present |-> TRUE, totalDies |-> 101, totalPass |-> 81],
      [present |-> TRUE, totalDies |-> 150, totalPass |-> 80] }

InitValidatorSpec ==
    /\ BinIdle /\ CombIdle /\ MapIdle /\ CallIdle /\ UpIdle
    /\ \E maps \in SeqsUpTo(Wafers, MaxWafers) :
       \E far \in FarSummaries : \E lot \in LotSummaries :
          InitValidator(maps, far, lot, "start")

\* edsMapParser.ts:203: parseEdsFiles validates what it parsed
QuickValidate ==
    /\ vpc = "start"
    /\ validationResults' = validateData(waferMaps, farSummary)
    /\ vpc' = "validated"
    /\ UNCHANGED <<waferMaps, farSummary, lotSummary, report, statusTrace,
                   statusBeforeWafers, notValVars>>

Validate ==
    /\ vpc = "validated"
    /\ LET r == generateIntegrityReport(waferMaps, farSummary, lotSummary)
       IN /\ report' = [f \in DOMAIN r \ {"trace", "beforeWafers"} |-> r[f]]
          /\ statusTrace' = r.trace
          /\ statusBeforeWafers' = r.beforeWafers
    /\ vpc' = "done"
    /\ UNCHANGED <<waferMaps, farSummary, lotSummary, validationResults, notValVars>>

NextValidator == QuickValidate \/ Validate

SpecValidator == InitValidatorSpec /\ [][NextValidator]_vars

(***************************************************************************)
(* SpecWafer: one wafer-map file parsed by EdsMapParser.parseWaferMapFile  *)
(* and its header handed to DataValidator.generateIntegrityReport.         *)
(***************************************************************************)
\* the decimal digits of n, as String(n) writes them
RECURSIVE ToDigits(_)
ToDigits(n) ==
    IF n < 10 THEN <<DigitChars[n + 1]>>
    ELSE ToDigits(n \div 10) \o <<DigitChars[(n % 10) + 1]>>

\* a yield of y hundredths written with two decimals and a percent sign
YieldText(y) ==
    ToDigits(y \div 100) \o <<".">> \o ToDigits((y % 100) \div 10)
        \o ToDigits(y % 10) \o <<"%">>

\* the rows a grid is made of: 4 pass and 1 fail, 5 pass, 5 fail
GridRows ==
    { <<"1", " ", "1", " ", "1", " ", "1", " ", "X">>,
      <<"1", "1", "1", "1", "1">>,
      <<"X", " ", "X", " ", "X", " ", "X", " ", "X">> }
MaxRows == 5
\* what the declared yield is off by, in hundredths
YieldOffsets == {0, 50, 500}

CountToken(l, tok) == Cardinality({i \in 1..Len(l) : l[i] = tok})
RECURSIVE CountInRows(_, _)
CountInRows(rows, tok) ==
    IF rows = <<>> THEN 0 ELSE CountToken(Head(rows), tok) + CountInRows(Tail(rows), tok)

\* a wafer-map file: the header the tester writes for the grid, then the grid
WaferFile(id, rows, off) ==
    LET pass == CountInRows(rows, "1")
        fail == CountInRows(rows, "X")
        total == pass + fail
        yield == IF total > 0 THEN (pass * 10000) \div total ELSE 0
    IN << <<"Wafer ID", ":", " ", id>>,
          <<"Total test die", ":", " ">> \o ToDigits(total),
          <<"Pass Die", ":", " ">> \o ToDigits(pass),
          <<"Fail Die", ":", " ">> \o ToDigits(fail),
          <<"Yield", ":", " ">> \o YieldText(yield + off) >> \o rows

\* the wafer generateIntegrityReport reads out of a parsed header
WaferOf(h) ==
    [waferId |-> h["Wafer ID"][1], passDie |-> h["Pass Die"],
     totalTestDie |-> h["Total test die"], yield |-> h["Yield"]]

InitWaferSpec ==
    /\ BinIdle /\ CombIdle /\ CallIdle /\ UpIdle
    /\ InitValidator(<<>>, NoFar, NoLot, "parsing")
    /\ \E rows \in SeqsUpTo(GridRows, MaxRows) : \E off \in YieldOffsets :
          InitMap("eds", WaferFile("W1", rows, off), "start")

\* dataValidator.ts:20-191 applied to the parsed map
ValidateParsed ==
    /\ mpc = "done" /\ vpc = "parsing"
    /\ waferMaps' = <<WaferOf(mHeader)>>
    /\ LET r == generateIntegrityReport(<<WaferOf(mHeader)>>, NoFar, NoLot)
       IN /\ report' = [f \in DOMAIN r \ {"trace", "beforeWafers"} |-> r[f]]
          /\ statusTrace' = r.trace
          /\ statusBeforeWafers' = r.beforeWafers
    /\ vpc' = "done"
    /\ UNCHANGED <<farSummary, lotSummary, validationResults, notValVars>>

NextWafer ==
    MapSplit \/ MapHeaderLine \/ MapHeaderEnd \/ MapBodyLine \/ MapReturn
        \/ ValidateParsed

SpecWafer == InitWaferSpec /\ [][NextWafer]_vars

(***************************************************************************)
(* SpecHeader: the header extractStdfData builds (stdfParser.ts:251-276)   *)
(* and the file-name patterns (464-472).  A file name is the sequence of   *)
(* its characters; a MIR record carries the lot id and part type its       *)
(* payload encodes (the layout parseMasterInfo reads, 637-678).            *)
(***************************************************************************)
Upper == {"A", "B", "T", "W"}
UpperOrDigit == Upper \cup Digits
Separators == {"-", "_"}

\* the end of the longest run of characters of class C that starts at i
\* (i - 1 when s[i] is not in C)
RunEnd(s, i, C) ==
    CHOOSE j \in (i - 1)..Len(s) :
        /\ \A k \in i..j : s[k] \in C
        /\ (j = Len(s) \/ s[j + 1] \notin C)

\* /([A-Z0-9]+[-_][A-Z0-9]+)/ matching at i: the end of the match, or 0
LotMatchEnd(s, i) ==
    LET j == RunEnd(s, i, UpperOrDigit)
    IN IF j >= i /\ j + 2 <= Len(s) /\ s[j + 1] \in Separators
          /\ s[j + 2] \in UpperOrDigit
       THEN RunEnd(s, j + 2, UpperOrDigit) ELSE 0
\* /([A-Z]\d+[A-Z]+)/ matching at i: the end of the match, or 0
PartMatchEnd(s, i) ==
    LET d == RunEnd(s, i + 1, Digits)
        u == RunEnd(s, d + 1, Upper)
    IN IF s[i] \in Upper /\ d >= i + 1 /\ u >= d + 1 THEN u ELSE 0

\* stdfParser.ts:464-467
extractLotIdFromFileName(fileName) ==
    LET starts == {i \in 1..Len(fileName) : LotMatchEnd(fileName, i) # 0}
    IN IF starts = {} THEN <<"UNKNOWN_LOT">>
       ELSE SubSeq(fileName, SetMin(starts), LotMatchEnd(fileName, SetMin(starts)))
\* stdfParser.ts:469-472
extractPartTypeFromFileName(fileName) ==
    LET starts == {i \in 1..Len(fileName) : PartMatchEnd(fileName, i) # 0}
    IN IF starts = {} THEN <<"UNKNOWN_PART">>
       ELSE SubSeq(fileName, SetMin(starts), PartMatchEnd(fileName, SetMin(starts)))

IsMir(r) == r.type = 1 /\ r.subType = 10

\* stdfParser.ts:251-276: the lot fields of the header extractStdfData returns
ExtractHeader(recs, fileName) ==
    IF \E i \in 1..Len(recs) : IsMir(recs[i])
    THEN [lotId |-> extractLotIdFromFileName(fileName),
          partType |-> extractPartTypeFromFileName(fileName)]
    ELSE [lotId |-> <<"UNKNOWN">>, partType |-> <<"UNKNOWN">>]

\* the records and the file names handed in
HeaderRecords ==
    { [type |-> 1, subType |-> 10, lotId |-> <<"L", "1">>, partType |-> <<"T", "1", "A">>],
      [type |-> 1, subType |-> 10, lotId |-> <<"L", "2">>, partType |-> <<"B", "2", "B">>],
      [type |-> 2, subType |-> 10, lotId |-> <<>>, partType |-> <<>>],
      [type |-> 5, subType |-> 20, lotId |-> <<>>, partType |-> <<>>] }
MaxRecords == 2
FileNames ==
    { <<"A", "B", "-", "1", "2", ".", "s">>,
      <<"T", "1", "A", "_", "W", "2", ".", "s">>,
      <<"l", "o", "t", "_", "A", "1", "B", ".", "s">>,
      <<"l", "o", "t", ".", "s">> }

InitHeaderSpec ==
    /\ BinIdle /\ CombIdle /\ MapIdle /\ ValIdle /\ UpIdle
    /\ \E recs \in SeqsUpTo(HeaderRecords, MaxRecords) : \E name \in FileNames :
          InitCall("extractStdfData", [records |-> recs, fileName |-> name], "start")

ExtractHeaderCall ==
    /\ callPc = "start" /\ callName = "extractStdfData"
    /\ callResult' = ExtractHeader(callArgs.records, callArgs.fileName)
    /\ callPc' = "done"
    /\ UNCHANGED <<callName, callArgs, notCallVars>>

NextHeader == ExtractHeaderCall

SpecHeader == InitHeaderSpec /\ [][NextHeader]_vars

(***************************************************************************)
(* SpecResync: one resynchronization of parseStdfBuffer, the call          *)
(* findNextValidRecord(view, offset + skip, buffer.byteLength) of          *)
(* stdfParser.ts:158 (skip 1), 189 (skip 4) and 197 (skip 1).              *)
(***************************************************************************)
ResyncSkips == {1, 4}

InitResyncSpec ==
    /\ BinIdle /\ CombIdle /\ MapIdle /\ ValIdle /\ UpIdle
    /\ \E b \in Buffers(EnhancedChunks) : \E o \in 0..Len(b) : \E skip \in ResyncSkips :
          InitCall("findNextValidRecord",
                   [buf |-> b, offset |-> o, startOffset |-> o + skip], "start")

ResyncCall ==
    /\ callPc = "start" /\ callName = "findNextValidRecord"
    /\ callResult' = findNextValidRecord(callArgs.buf, callArgs.startOffset,
                                         Len(callArgs.buf))
    /\ callPc' = "done"
    /\ UNCHANGED <<callName, callArgs, notCallVars>>

NextResync == ResyncCall

SpecResync == InitResyncSpec /\ [][NextResync]_vars

(***************************************************************************)
(* The upload component, DataUpload.tsx:87-253: handleFiles, called by     *)
(* handleDrop and handleFileInput.  The drop zone stays active while       *)
(* isProcessing is true, so a second call can start while the first one    *)
(* awaits.  Each await returns control to the event loop.                  *)
(***************************************************************************)
\* what the parse of one binary file resolves to
UploadOutcomes ==
    { Observable(MkResult(ps, CountBins(ps), Summarize(ps))) :
      ps \in { <<[hardBin |-> 1, origin |-> "prr"]>>,
               <<[hardBin |-> 2, origin |-> "prr"]>> } }
UploadKinds == {"stdf", "eds", "other"}
UploadFiles(kind) ==
    IF kind = "stdf" THEN SeqsUpTo(UploadOutcomes, MaxFiles) \ {<<>>} ELSE {<<>>}

\* Promise.all keeps each value at the index of its promise
Resolve_InCompletionOrder(results, i, r) ==
    results @@ ((Cardinality(DOMAIN results) + 1) :> r)
Resolve(results, i, r) == results @@ (i :> r)

\* DataUpload.tsx:159-252 once allFiles is known, up to the first await
AfterExtraction(k, kind, files) ==
    /\ uKind' = [uKind EXCEPT ![k] = kind]
    /\ uFiles' = [uFiles EXCEPT ![k] = files]
    /\ IF kind = "eds"
       THEN /\ uPc' = [uPc EXCEPT ![k] = "parsingEds"]
            /\ isProcessing' = TRUE
       ELSE IF kind = "stdf"
       THEN /\ uPc' = [uPc EXCEPT ![k] = "parsing"]
            /\ isProcessing' = TRUE
       ELSE \* the mock branch awaits nothing: it runs on to finally
            /\ uPc' = [uPc EXCEPT ![k] = "done"]
            /\ isProcessing' = FALSE

\* DataUpload.tsx:122-141: no supported file, handleFiles returns
HandleFilesUnsupported(k) ==
    /\ uPc[k] = "ready"
    /\ uPc' = [uPc EXCEPT ![k] = "ignored"]
    /\ UNCHANGED <<isProcessing, uKind, uFiles, uSettled, uReordered, uResults,
                   uCombined, notUpVars>>

\* DataUpload.tsx:143-153: a ZIP archive among the files, awaited first
HandleFilesZip(k) ==
    /\ uPc[k] = "ready"
    /\ isProcessing' = TRUE
    /\ uPc' = [uPc EXCEPT ![k] = "extracting"]
    /\ UNCHANGED <<uKind, uFiles, uSettled, uReordered, uResults, uCombined,
                   notUpVars>>

\* DataUpload.tsx:143-205: no ZIP archive; the parses are all started by the
\* one stdfFiles.map call
HandleFiles(k) ==
    /\ uPc[k] = "ready"
    /\ \E kind \in UploadKinds : \E files \in UploadFiles(kind) :
          AfterExtraction(k, kind, files)
    /\ UNCHANGED <<uSettled, uReordered, uResults, uCombined, notUpVars>>

\* DataUpload.tsx:150: extractZipFiles resolves
Extracted(k) ==
    /\ uPc[k] = "extracting"
    /\ \E kind \in UploadKinds : \E files \in UploadFiles(kind) :
          AfterExtraction(k, kind, files)
    /\ UNCHANGED <<uSettled, uReordered, uResults, uCombined, notUpVars>>

\* DataUpload.tsx:150, 243-252: extractZipFiles rejects; catch, then finally
ExtractFails(k) ==
    /\ uPc[k] = "extracting"
    /\ uPc' = [uPc EXCEPT ![k] = "failed"]
    /\ isProcessing' = FALSE
    /\ UNCHANGED <<uKind, uFiles, uSettled, uReordered, uResults, uCombined,
                   notUpVars>>

\* DataUpload.tsx:172-198, 243-252: parseEdsFiles settles (resolved or
\* rejected), then finally
EdsParsed(k) ==
    /\ uPc[k] = "parsingEds"
    /\ \E to \in {"done", "failed"} : uPc' = [uPc EXCEPT ![k] = to]
    /\ isProcessing' = FALSE
    /\ UNCHANGED <<uKind, uFiles, uSettled, uReordered, uResults, uCombined,
                   notUpVars>>

\* DataUpload.tsx:203-205: the parse of file i resolves (parseStdfFile never
\* rejects), and Promise.all stores its value
ParseSettles(k, i) ==
    /\ uPc[k] = "parsing"
    /\ i \in 1..Len(uFiles[k]) /\ i \notin uSettled[k]
    /\ uSettled' = [uSettled EXCEPT ![k] = @ \cup {i}]
    /\ uReordered' = [uReordered EXCEPT ![k] = @ \/ \E j \in 1..(i - 1) : j \notin uSettled[k]]
    /\ uResults' = [uResults EXCEPT ![k] = Resolve(@, i, uFiles[k][i])]
    /\ UNCHANGED <<isProcessing, uPc, uKind, uFiles, uCombined, notUpVars>>

\* DataUpload.tsx:203-252: Promise.all resolves once every value is stored;
\* the results are combined and finally runs
AllParsed(k) ==
    /\ uPc[k] = "parsing"
    /\ Cardinality(DOMAIN uResults[k]) = Len(uFiles[k])
    /\ uCombined' = [uCombined EXCEPT ![k] = combineStdfResults(uResults[k])]
    /\ uPc' = [uPc EXCEPT ![k] = "done"]
    /\ isProcessing' = FALSE
    /\ UNCHANGED <<uKind, uFiles, uSettled, uReordered, uResults, notUpVars>>

InitUploadSpec ==
    /\ BinIdle /\ CombIdle /\ MapIdle /\ ValIdle /\ CallIdle
    /\ InitUpload("ready")

NextUpload ==
    \E k \in Invocations :
        \/ HandleFilesUnsupported(k)
        \/ HandleFilesZip(k)
        \/ HandleFiles(k)
        \/ Extracted(k)
        \/ ExtractFails(k)
        \/ EdsParsed(k)
        \/ (\E i \in 1..MaxFiles : ParseSettles(k, i))
        \/ AllParsed(k)

SpecUpload == InitUploadSpec /\ [][NextUpload]_vars

(***************************************************************************)
(* Claims about the binary parser.                                         *)
(***************************************************************************)
Scanned == pc \in {"extract", "summarize", "done"}
EnhancedDone == impl = "enhanced" /\ fileStatus = "ok" /\ pc = "done"

\* C1: in both scanning loops the cursor strictly increases on every
\* iteration that stays in the loop, and the loop runs at most byteLength
\* iterations.
C1_ScannerTerminates ==
    /\ [][(pc = "scan" /\ pc' = "scan") => offset' > offset]_vars
    /\ [](iterations <= Len(buf))

\* C1 witness: an enhanced scan that skipped an empty record, emitted a
\* record and left the loop.
C1_Witness ==
    /\ impl = "enhanced" /\ pc = "done"
    /\ Len(records) >= 1 /\ iterations > Len(records)
    /\ \E o \in 0..(Len(buf) - 5) :
          U16BE(buf, o) = 0 /\ \A i \in 1..Len(records) : records[i].offset # o

\* the number of back-to-back records (4-byte header, big-endian length, then
\* exactly that many payload bytes) that make up b from offset o on; -1 when
\* b is not such a sequence
RECURSIVE ValidRecordCount(_, _)
ValidRecordCount(b, o) ==
    IF o = Len(b) THEN 0
    ELSE IF o + 4 > Len(b) \/ o + 4 + U16BE(b, o) > Len(b) THEN -1
    ELSE LET rest == ValidRecordCount(b, o + 4 + U16BE(b, o))
         IN IF rest < 0 THEN -1 ELSE rest + 1

\* C2: a buffer of N valid back-to-back records (any length from 0 upward)
\* yields exactly N records, in buffer order, and no parse error.
C2_RoundTrip ==
    (impl = "enhanced" /\ Scanned /\ ValidRecordCount(buf, 0) >= 0) =>
        /\ Len(records) = ValidRecordCount(buf, 0)
        /\ parseErrors = 0
        /\ \A i \in 1..(Len(records) - 1) : records[i].offset < records[i + 1].offset

\* C3: the result holds exactly one part per PRR-kind record, in stream order.
C3_OnePartPerPrr ==
    EnhancedDone =>
        /\ Len(parts) = PrrCount(records)
        /\ \A i \in 1..Len(parts) : parts[i].origin = "prr"

\* C4: when no part was decoded (or the error cap was reached) the result
\* holds no fabricated part.  (The result has no field that could mark it
\* degraded: MkResult.)
C4_NoFabricatedParts ==
    (EnhancedDone /\ (PrrCount(records) = 0 \/ parseErrors >= maxErrors(buf))) =>
        \A i \in 1..Len(parts) : parts[i].origin = "prr"

\* the offset of the header, reached by walking b's records from o, whose
\* length field claims more payload than b holds; -1 when there is none
RECURSIVE TruncationPoint(_, _)
TruncationPoint(b, o) ==
    IF o + 4 > Len(b) THEN -1
    ELSE IF o + 4 + U16BE(b, o) > Len(b) THEN o
    ELSE TruncationPoint(b, o + 4 + U16BE(b, o))

\* C5: a buffer that ends mid-record yields parseErrors >= 1, no record past
\* the buffer end, a cursor at or before the truncation point, no exception.
C5_TruncatedRecord ==
    (impl = "enhanced" /\ Scanned /\ TruncationPoint(buf, 0) >= 0) =>
        /\ parseErrors >= 1
        /\ \A i \in 1..Len(records) :
              records[i].offset + 4 + records[i].length <= Len(buf)
        /\ offset <= TruncationPoint(buf, 0)

\* C6: whatever the buffer holds, parseStdfFile ends by returning a result:
\* no exception leaves it, and until it has returned it can take a step.
C6_NeverThrows ==
    (impl = "enhanced" \/ fileStatus = "ok") =>
        /\ pc # "escaped"
        /\ pc = "done" => summary # NoSummary
        /\ pc \notin {"done", "none"} => ENABLED Next

\* C6 witness: an exception thrown by an interpreter was absorbed and the
\* result returned.
C6_Witness == impl = "legacy" /\ pc = "done" /\ caught > 0 /\ Len(parts) > 0

(***************************************************************************)
(* Claims about results and their combination.                             *)
(***************************************************************************)
AllResults ==
    {cResults[i] : i \in 1..Len(cResults)}
        \cup (IF cpc = "combined" THEN {cCombined} ELSE {})

\* C7: in every result of the parser (decoded or fallback) and of
\* combineStdfResults, the counts of binSummary add up to parts.length.
C7_BinCountsSumToParts ==
    \A r \in AllResults : SumOver(r.binSummary, DOMAIN r.binSummary) = Len(r.parts)

\* C7 witness: a decoded and a fallback result, both with failing parts,
\* were combined.
C7_Witness ==
    /\ cpc = "combined" /\ Len(cResults) >= 2
    /\ \E i, j \in 1..Len(cResults) :
          /\ 1 \notin DOMAIN cResults[i].binSummary
          /\ DOMAIN cResults[j].binSummary = {1, 2, 3}
          /\ cResults[j].binSummary[1] = 0 /\ cResults[j].binSummary[3] > 0

\* C8: passParts counts the parts with hardBin 1, failParts is the rest,
\* totalParts is parts.length, and yieldPercentage is
\* passParts / totalParts * 100, or 0 when there are no parts.
C8_SummaryConsistent ==
    \A r \in AllResults :
        LET sm == r.summary
            y == sm.yieldPercentage
        IN /\ sm.totalParts = Len(r.parts)
           /\ sm.passParts = Cardinality({i \in 1..Len(r.parts) : r.parts[i].hardBin = 1})
           /\ sm.failParts = sm.totalParts - sm.passParts
           /\ y.den > 0
           /\ IF sm.totalParts > 0
              THEN y.num * sm.totalParts = sm.passParts * 100 * y.den
              ELSE y.num = 0

\* C8 witness: a combined result with passing and failing parts.
C8_Witness ==
    /\ cpc = "combined" /\ Len(cResults) >= 2
    /\ cCombined.summary.passParts > 0 /\ cCombined.summary.failParts > 0

(***************************************************************************)
(* Claims about the wafer-map text parsers.                                *)
(***************************************************************************)
RECURSIVE CellCount(_)
CellCount(rows) == IF rows = <<>> THEN 0 ELSE Len(Head(rows)) + CellCount(Tail(rows))

\* C9: the values of binCounts add up to the number of cells stored in
\* coordinateMap.
C9_BinCountsSumToCells ==
    mpc = "done" => SumOver(binCounts, DOMAIN binCounts) = CellCount(coordinateMap)

(***************************************************************************)
(* Claims about the integrity report.                                      *)
(***************************************************************************)
\* every individual check result of a report
CheckResults(r) ==
    {r.waferCountValidation, r.bin1CountValidation, r.lotSummaryValidation}
        \cup {r.crossFileValidation[i] : i \in 1..Len(r.crossFileValidation)}
        \cup {r.individualWaferValidation[i] : i \in 1..Len(r.individualWaferValidation)}

\* error maps to fail, warning to warning, info to pass
StatusOf(sev) == CASE sev = "error" -> "fail" [] sev = "warning" -> "warning" [] OTHER -> "pass"
Rank(st) == CASE st = "fail" -> 2 [] st = "warning" -> 1 [] OTHER -> 0
MaxSeverityRank(r) ==
    CHOOSE k \in 0..2 :
        /\ \E e \in CheckResults(r) : Rank(StatusOf(e.severity)) = k
        /\ \A e \in CheckResults(r) : Rank(StatusOf(e.severity)) <= k

\* C10: overallStatus equals the maximum severity over all check results.
C10_StatusIsMaxSeverity ==
    vpc = "done" => Rank(report.overallStatus) = MaxSeverityRank(report)

\* C11: when a FAR summary is supplied and its totalWafer differs from the
\* number of wafer maps, the returned report has waferCountValidation invalid
\* with severity error and overallStatus fail, and validateData's
\* waferCountMatch is false.
C11_WaferCountMismatchFails ==
    (vpc = "done" /\ farSummary.present /\ farSummary.totalWafer # Len(waferMaps)) =>
        /\ report.waferCountValidation.isValid = FALSE
        /\ report.waferCountValidation.severity = "error"
        /\ report.overallStatus = "fail"
        /\ validationResults.waferCountMatch = FALSE

\* C11 witness: a wafer-count mismatch reported together with a BIN1 warning
\* and a lot-summary warning, each of which sets overallStatus to warning
\* when it finds it at pass
C11_Witness ==
    /\ vpc = "done" /\ farSummary.present /\ farSummary.totalWafer # Len(waferMaps)
    /\ report.bin1CountValidation.severity = "warning"
    /\ report.lotSummaryValidation.severity = "warning"
    /\ report.overallStatus = "fail"
    /\ validationResults.waferCountMatch = FALSE

\* the entries of crossFileValidation that name wafer id with severity sev
CrossFileEntries(id, sev) ==
    {i \in 1..Len(report.crossFileValidation) :
        /\ report.crossFileValidation[i].waferId = id
        /\ report.crossFileValidation[i].severity = sev}

\* C12: for every wafer mapping of the supplied FAR summary and any list of
\* wafer maps, the empty list included: no map with the same waferId gives
\* an error entry for that wafer and overallStatus fail; a (first) matching
\* map whose passDie differs from bin1Count by more than 10 gives an error
\* entry and overallStatus fail; a difference of 1 to 10 gives a warning
\* entry and overallStatus at least warning.
C12_CrossFileEntries ==
    (vpc = "done" /\ farSummary.present) =>
        \A k \in 1..Len(farSummary.waferMappings) :
            LET mapping == farSummary.waferMappings[k]
                same == {i \in 1..Len(waferMaps) : waferMaps[i].waferId = mapping.waferId}
                first == CHOOSE i \in same : \A j \in same : i <= j
                diff == Abs(waferMaps[first].passDie - mapping.bin1Count)
            IN /\ same = {} =>
                    /\ CrossFileEntries(mapping.waferId, "error") # {}
                    /\ report.overallStatus = "fail"
               /\ (same # {} /\ diff > 10) =>
                    /\ CrossFileEntries(mapping.waferId, "error") # {}
                    /\ report.overallStatus = "fail"
               /\ (same # {} /\ diff >= 1 /\ diff <= 10) =>
                    /\ CrossFileEntries(mapping.waferId, "warning") # {}
                    /\ report.overallStatus \in {"warning", "fail"}

\* the sum of declared bin1Count and the sum of the maps' passDie
DeclaredBin1 ==
    SumOver([k \in 1..Len(farSummary.waferMappings) |-> farSummary.waferMappings[k].bin1Count],
            1..Len(farSummary.waferMappings))
ObservedBin1 ==
    SumOver([i \in 1..Len(waferMaps) |-> waferMaps[i].passDie], 1..Len(waferMaps))
\* |difference| / max(sums) * 100 > 5
Bin1VarianceOver5 ==
    Abs(DeclaredBin1 - ObservedBin1) * 100 > 5 * Max(DeclaredBin1, ObservedBin1)

\* C13: with a FAR summary and at least one map, equal sums give an info
\* result with isValid true; unequal sums more than 5% apart give an error
\* result and overallStatus fail; unequal sums at most 5% apart give a warning
\* result, and the BIN1 check leaves overallStatus at warning unless the
\* wafer-count check had already set it to fail.
C13_Bin1CountCheck ==
    (vpc = "done" /\ farSummary.present /\ Len(waferMaps) > 0) =>
        LET e == report.bin1CountValidation
        IN /\ DeclaredBin1 = ObservedBin1 => (e.isValid /\ e.severity = "info")
           /\ (DeclaredBin1 # ObservedBin1 /\ Bin1VarianceOver5) =>
                 (~e.isValid /\ e.severity = "error" /\ report.overallStatus = "fail")
           /\ (DeclaredBin1 # ObservedBin1 /\ ~Bin1VarianceOver5) =>
                 /\ ~e.isValid /\ e.severity = "warning"
                 /\ statusTrace[2] = (IF farSummary.totalWafer = Len(waferMaps)
                                      THEN "warning" ELSE "fail")
                 /\ report.overallStatus \in {"warning", "fail"}

\* C13 witness: maps whose passDie sum is exactly 5% above the declared sum
\* (warning), with the wafer count matching
C13_Witness ==
    /\ vpc = "done" /\ farSummary.present /\ Len(waferMaps) >= 1
    /\ farSummary.totalWafer = Len(waferMaps)
    /\ DeclaredBin1 # ObservedBin1
    /\ Abs(DeclaredBin1 - ObservedBin1) * 100 = 5 * Max(DeclaredBin1, ObservedBin1)
    /\ report.bin1CountValidation.severity = "warning"

(***************************************************************************)
(* Claims about a wafer-map file and its report.                           *)
(***************************************************************************)
\* the rows of the file handed in
IsGridRow(l) == MatchesRow(Trim(l), "eds")
FileRows == SelectSeq(mContent, IsGridRow)

\* the header counts are those of the grid and the declared yield equals
\* passDie / totalTestDie * 100
ConsistentHeader ==
    /\ mHeader["Pass Die"] = CountInRows(FileRows, "1")
    /\ mHeader["Fail Die"] = CountInRows(FileRows, "X")
    /\ mHeader["Total test die"] = mHeader["Pass Die"] + mHeader["Fail Die"]
    /\ mHeader["Total test die"] > 0
    /\ mHeader["Yield"] * mHeader["Total test die"] = mHeader["Pass Die"] * 10000

\* C14: for a wafer map with a consistent header, binCounts has '1' = passDie
\* and 'X' = failDie, and the report holds an info result for that wafer.
C14_ConsistentWaferIsInfo ==
    (vpc = "done" /\ ConsistentHeader) =>
        /\ binCounts["1"] = mHeader["Pass Die"]
        /\ binCounts["X"] = mHeader["Fail Die"]
        /\ \E i \in 1..Len(report.individualWaferValidation) :
              /\ report.individualWaferValidation[i].waferId = waferMaps[1].waferId
              /\ report.individualWaferValidation[i].severity = "info"

(***************************************************************************)
(* Claims about combineStdfResults as a merge.                             *)
(***************************************************************************)
\* the inputs' parts, in order
MergedParts == Concat([i \in 1..Len(cResults) |-> cResults[i].parts])
\* the sum of bin b's counts over the inputs
InputBinCount(b) ==
    SumOver([i \in 1..Len(cResults) |->
               IF b \in DOMAIN cResults[i].binSummary THEN cResults[i].binSummary[b] ELSE 0],
            1..Len(cResults))
InputBins == UNION {DOMAIN cResults[i].binSummary : i \in 1..Len(cResults)}

\* C15: combining k >= 2 results concatenates their parts in order, sums each
\* bin's counts, and re-derives the summary and the per-test statistics (their
\* count) from the merged part list.
C15_CombineIsPureMerge ==
    (cpc = "combined" /\ Len(cResults) >= 2) =>
        /\ cCombined.parts = MergedParts
        /\ DOMAIN cCombined.binSummary = InputBins
        /\ \A b \in InputBins : cCombined.binSummary[b] = InputBinCount(b)
        /\ cCombined.summary.totalParts = Len(MergedParts)
        /\ cCombined.summary.passParts =
              Cardinality({i \in 1..Len(MergedParts) : MergedParts[i].hardBin = 1})
        /\ cCombined.summary.failParts =
              Cardinality({i \in 1..Len(MergedParts) : MergedParts[i].hardBin # 1})
        /\ cCombined.testSummary.count = Len(MergedParts)

(***************************************************************************)
(* Claims about the lot header.                                            *)
(***************************************************************************)
MirIndexes == {i \in 1..Len(callArgs.records) : IsMir(callArgs.records[i])}
FirstMir == callArgs.records[CHOOSE i \in MirIndexes : \A j \in MirIndexes : i <= j]

\* C16: with a MIR record among the records the header's lotId and partType
\* are those of the first MIR record; without one they are derived from the
\* file name by the file-name patterns.
C16_HeaderSource ==
    (callName = "extractStdfData" /\ callPc = "done") =>
        IF MirIndexes # {}
        THEN /\ callResult.lotId = FirstMir.lotId
             /\ callResult.partType = FirstMir.partType
        ELSE /\ callResult.lotId = extractLotIdFromFileName(callArgs.fileName)
             /\ callResult.partType = extractPartTypeFromFileName(callArgs.fileName)

(***************************************************************************)
(* Claims about the record interpreters of the legacy parser.              *)
(***************************************************************************)
\* the header offsets of the complete records (4-byte header, little-endian
\* length, that many payload bytes inside the buffer) that follow one
\* another from offset o on
RECURSIVE FramedFrom(_, _)
FramedFrom(b, o) ==
    IF o + 4 > Len(b) \/ o + 4 + U16LE(b, o) > Len(b) THEN {}
    ELSE {o} \cup FramedFrom(b, o + 4 + U16LE(b, o))

\* the record whose interpretation threw: the last one scanned
ThrowingRecord == records[Len(records)]
\* the complete records after it that the loop condition of stdfParser.ts:546
\* admits (a header in the last 4 bytes is never read, thrown or not)
LaterRecords ==
    {o \in FramedFrom(buf, ThrowingRecord.offset + 4 + ThrowingRecord.length) :
        o < Len(buf) - 4}
IsLegacyPrr(b, o) == U8(b, o + 2) = 2 /\ U8(b, o + 3) = 20

\* C17: when interpreting a record reads outside the buffer, only that record
\* is skipped: every later complete record is still scanned, and every later
\* PRR record that can be interpreted still gives a part.
C17_InterpretErrorIsLocal ==
    (impl = "legacy" /\ pc = "done" /\ caught > 0) =>
        /\ \A o \in LaterRecords : \E i \in 1..Len(records) : records[i].offset = o
        /\ Len(parts) >= Cardinality({o \in LaterRecords :
                                        IsLegacyPrr(buf, o) /\ parsePartResult(buf, o + 4).ok})

(***************************************************************************)
(* Claims about resynchronization.                                         *)
(***************************************************************************)
\* the scanning loop of parseStdfBuffer met, at the cursor, a header whose
\* record would overrun the buffer
OverrunMet ==
    /\ impl = "enhanced" /\ Scanned
    /\ offset < Len(buf) - 4
    /\ U16BE(buf, offset) > 0
    /\ offset + 4 + U16BE(buf, offset) > Len(buf)
\* the plausible headers after the failing one: 0 < length <= 65535 and the
\* record inside the buffer
PlausibleAfter ==
    {o \in (offset + 1)..(Len(buf) - 5) :
        /\ U16BE(buf, o) > 0 /\ U16BE(buf, o) <= MAX_RECORD_LENGTH
        /\ o + 4 + U16BE(buf, o) <= Len(buf)}

\* C18: a header whose record would overrun the buffer is counted in
\* parseErrors and scanning resumes at the first plausible header after it,
\* whose record is emitted.
C18_OverrunResynchronizes ==
    OverrunMet =>
        /\ parseErrors >= 1
        /\ PlausibleAfter # {} =>
              \E i \in 1..Len(records) : records[i].offset = SetMin(PlausibleAfter)

\* the header at o is plausible: 0 < length <= 65535 and its record inside b
Plausible(b, o) ==
    /\ o >= 0 /\ o + 4 <= Len(b)
    /\ U16BE(b, o) > 0 /\ U16BE(b, o) <= MAX_RECORD_LENGTH
    /\ o + 4 + U16BE(b, o) <= Len(b)

\* C19: findNextValidRecord returns an offset >= startOffset; an offset other
\* than startOffset holds a plausible header; and the cursor after a
\* resynchronization is greater than the cursor before it.
C19_ResyncNeverBackwards ==
    (callName = "findNextValidRecord" /\ callPc = "done") =>
        /\ callResult >= callArgs.startOffset
        /\ callResult # callArgs.startOffset => Plausible(callArgs.buf, callResult)
        /\ callResult > callArgs.offset

\* C19 witness: resynchronization skipped forward to a later header although
\* a plausible header lies before the start of the search
C19_Witness ==
    /\ callName = "findNextValidRecord" /\ callPc = "done"
    /\ callResult > callArgs.startOffset
    /\ \E o \in 0..(callArgs.startOffset - 1) : Plausible(callArgs.buf, o)

\* C20: interpreting the record at header offset o with length L reads no
\* byte at or beyond o + 4 + L.
C20_ReadsInsidePayload ==
    (impl = "legacy" /\ pc = "done") =>
        \A i \in 1..Len(records) :
            LegacyIteration(buf, records[i].offset, <<>>).readEnd
                <= records[i].offset + 4 + records[i].length

\* C21: while generateIntegrityReport evaluates its checks in order, no
\* assignment to overallStatus is lower than the status held before it, under
\* the order pass < warning < fail.
C21_StatusMonotonic ==
    \A i \in 1..(Len(statusTrace) - 1) :
        Rank(statusTrace[i]) <= Rank(statusTrace[i + 1])

\* C21 witness: the lot-summary check found a warning condition when the
\* wafer-count check had already set the status to fail
C21_Witness ==
    /\ vpc = "done"
    /\ report.waferCountValidation.severity = "error"
    /\ report.lotSummaryValidation.severity = "warning"
    /\ report.overallStatus = "fail"

\* the number of entries of a sequence of check results with isValid = FALSE
RECURSIVE CountInvalid(_)
CountInvalid(es) ==
    IF es = <<>> THEN 0
    ELSE (IF Head(es).isValid THEN 0 ELSE 1) + CountInvalid(Tail(es))
\* the number of check results of the report with isValid = FALSE
TriggeredCount ==
    CountInvalid(<<report.waferCountValidation, report.bin1CountValidation,
                   report.lotSummaryValidation>>
                 \o report.crossFileValidation \o report.individualWaferValidation)
AllConsistentHint == "Data integrity validation passed"
RemediationHints ==
    SelectSeq(report.recommendations, LAMBDA h : h.text # AllConsistentHint)
AllConsistentHints ==
    SelectSeq(report.recommendations, LAMBDA h : h.text = AllConsistentHint)

\* C22: the returned report's recommendations hold exactly one remediation
\* hint per check result with isValid = FALSE, and the single "all
\* consistent" hint exactly when no check result has isValid = FALSE.
C22_OneHintPerCondition ==
    vpc = "done" =>
        /\ Len(RemediationHints) = TriggeredCount
        /\ Len(AllConsistentHints) = (IF TriggeredCount = 0 THEN 1 ELSE 0)

\* a line with every whitespace character removed
StripWhitespace(l) == SelectSeq(l, LAMBDA c : c \notin Whitespace)
\* the trimmed lines of the file that match the grid class, in file order,
\* each with its whitespace removed
RECURSIVE GridRowsOf(_, _)
GridRowsOf(content, parser) ==
    IF content = <<>> THEN <<>>
    ELSE (IF MatchesRow(Trim(Head(content)), parser)
          THEN <<StripWhitespace(Trim(Head(content)))>> ELSE <<>>)
         \o GridRowsOf(Tail(content), parser)

\* C23: the text parser returns as coordinateMap exactly the lines matching
\* the grid character class, in file order, each with all whitespace removed,
\* so that no cell is a whitespace character; other lines add no row.
C23_GridRowsOnly ==
    mpc = "done" =>
        /\ coordinateMap = GridRowsOf(mContent, mParser)
        /\ \A i \in 1..Len(coordinateMap) : \A j \in 1..Len(coordinateMap[i]) :
              coordinateMap[i][j] \notin Whitespace

(***************************************************************************)
(* Claims about the upload component.                                      *)
(***************************************************************************)
\* the files' parts in upload order
PartsInUploadOrder(k) == Concat([i \in 1..Len(uFiles[k]) |-> uFiles[k][i].parts])

\* C24: combineStdfResults is invoked only after every per-file parse has
\* completed, whatever the order in which the parses finish, and the
\* combined result lists the files' parts in upload order.
C24_CombineAfterAllInUploadOrder ==
    \A k \in Invocations :
        /\ (uPc[k] # "done") => uCombined[k] = <<>>
        /\ (uPc[k] = "done" /\ uKind[k] = "stdf") =>
              /\ uSettled[k] = 1..Len(uFiles[k])
              /\ uCombined[k].parts = PartsInUploadOrder(k)

\* C24 witness: two files with different parts whose parses finished in the
\* reverse of the upload order, combined
C24_Witness ==
    \E k \in Invocations :
        /\ uPc[k] = "done" /\ uKind[k] = "stdf"
        /\ Len(uFiles[k]) >= 2 /\ uReordered[k]
        /\ uFiles[k][1].parts # uFiles[k][2].parts
        /\ uCombined[k].parts = PartsInUploadOrder(k)

\* the indexes of the wafer maps whose declared yield is below 70
LowYieldMaps == {i \in 1..Len(waferMaps) : waferMaps[i].yield < 7000}
LowYieldHintsFor(id) ==
    SelectSeq(report.recommendations,
              LAMBDA h : h.text = "Investigate low yield" /\ h.waferId = id)

\* C25: every wafer map with a declared yield below 70 has a warning entry
\* and one recommendation naming its wafer, and overallStatus is then warning
\* or fail; without such a map the per-wafer checks (so a yield-variance
\* entry by itself) leave overallStatus as it was, and they never set fail.
C25_LowYieldWarns ==
    vpc = "done" =>
        /\ \A i \in LowYieldMaps :
              LET id == waferMaps[i].waferId
              IN /\ \E j \in 1..Len(report.individualWaferValidation) :
                       report.individualWaferValidation[j] =
                           EntryFor(FALSE, "warning", "Low yield detected", id)
                 /\ Len(LowYieldHintsFor(id)) =
                       Cardinality({j \in LowYieldMaps : waferMaps[j].waferId = id})
                 /\ report.overallStatus \in {"warning", "fail"}
        /\ LowYieldMaps = {} => report.overallStatus = statusBeforeWafers
        /\ report.overallStatus = "fail" => statusBeforeWafers = "fail"

\* C25 witness: a low-yield wafer and a wafer with a yield-variance warning,
\* reported when every other check passed
C25_Witness ==
    /\ vpc = "done" /\ LowYieldMaps # {}
    /\ \E j \in 1..Len(report.individualWaferValidation) :
          /\ report.individualWaferValidation[j].message = "Yield calculation variance"
          /\ report.individualWaferValidation[j].severity = "warning"
    /\ statusBeforeWafers = "pass"
    /\ report.overallStatus = "warning"

\* C26: every record the enhanced scanner emits lies wholly inside the
\* buffer, and each record starts at or after the end of the record emitted
\* before it, so offsets strictly increase and records do not overlap.
C26_RecordsInsideAndDisjoint ==
    impl = "enhanced" =>
        /\ \A i \in 1..Len(records) :
              records[i].offset + 4 + records[i].length <= Len(buf)
        /\ \A i \in 1..(Len(records) - 1) :
              records[i + 1].offset >= records[i].offset + 4 + records[i].length

\* C26 witness: a finished scan that emitted two records with skipped bytes
\* between them, the second one ending inside the buffer
C26_Witness ==
    /\ impl = "enhanced" /\ pc = "done" /\ Len(records) >= 2
    /\ \E i \in 1..(Len(records) - 1) :
          /\ records[i + 1].offset > records[i].offset + 4 + records[i].length
          /\ records[i + 1].offset + 4 + records[i + 1].length <= Len(buf)

\* C27: when the scanner consumes a record with header at offset o and
\* length L and goes on scanning, it reads the next header at o + 4 + L,
\* whatever the record's type.
C27_ExactFraming ==
    [][(Len(records') = Len(records) + 1 /\ pc' = "scan") =>
          offset' = records'[Len(records')].offset + 4 + records'[Len(records')].length]_vars

\* the number of returned parts whose hardBin is b
PartsInBin(b) == Cardinality({i \in 1..Len(parts) : parts[i].hardBin = b})

\* C28: in the ParsedStdfData returned by any path of the binary parser,
\* binSummary[b].count is the number of parts whose hardBin is b, and every
\* hardBin occurring in parts has an entry in binSummary.
C28_BinSummaryMatchesParts ==
    pc = "done" =>
        /\ \A i \in 1..Len(parts) : parts[i].hardBin \in DOMAIN binSummary
        /\ \A b \in DOMAIN binSummary : binSummary[b] = PartsInBin(b)

\* C29: overallStatus is fail if and only if at least one check result of
\* the report has severity error.
C29_FailIffError ==
    vpc = "done" =>
        (report.overallStatus = "fail" <=>
            \E e \in CheckResults(report) : e.severity = "error")

\* C29 witness: a report that fails on a cross-file error alone, the wafer
\* count and the BIN1 totals matching
C29_Witness ==
    /\ vpc = "done" /\ report.overallStatus = "fail"
    /\ report.waferCountValidation.severity = "info"
    /\ report.bin1CountValidation.severity = "info"
    /\ \E i \in 1..Len(report.crossFileValidation) :
          report.crossFileValidation[i].severity = "error"

\* a handleFiles call between setIsProcessing(true) and its finally block
InProgress(k) == uPc[k] \in {"extracting", "parsingEds", "parsing"}

\* C30: isProcessing is true whenever at least one handleFiles call is
\* between its start of processing and its completion.
C30_ProcessingWhileInProgress ==
    (\E k \in Invocations : InProgress(k)) => isProcessing

====
